---- MODULE Spec2Model ----
(***************************************************************************)
(* Verification model of tpmb-android.                                     *)
(*                                                                         *)
(*   Part I   BroadcastDispatcher: AndroidTelegramBot.send_messages_with_  *)
(*            retry (src/main.py), one dispatch cycle at a time.           *)
(*   Part II  JobScheduler: ResilientScheduler and the wrapper add_job     *)
(*            builds around every callback (src/utils/time_handler.py),    *)
(*            on top of the executor configured in initialize().           *)
(*   Part III SecurityManager: the rate limiter, the token envelope and    *)
(*            the token file (src/utils/security_manager.py).              *)
(*   Part IV  SecureConfigManager.migrate_plaintext_token                  *)
(*            (src/utils/security_manager.py).                             *)
(*   Part V   ResilientTimeHandler: sync_time, get_ntp_time and the        *)
(*            network check (src/utils/time_handler.py).                   *)
(*   Part VI  Configuration and messaging: load_config, save_config,       *)
(*            start_messaging, stop_messaging and shutdown (src/main.py)   *)
(*            and the commands of BotController                            *)
(*            (src/utils/bot_controller.py).                               *)
(*                                                                         *)
(* Every part has its own specifications (SpecDispatch; SpecSched,         *)
(* SpecWrap, SpecShut and SpecSync; SpecRate, SpecVault, SpecFormat and    *)
(* SpecRestart; SpecMigrate; SpecTime and SpecDst; SpecConfig, SpecLive,   *)
(* SpecLifecycle and SpecLifecycleFair). SpecSync runs the jobs of Part II *)
(* with a dispatch cycle of Part I, SpecLifecycle the commands of Part VI  *)
(* with the scheduler of Part II; in the others the variables of the       *)
(* other parts keep their initial value.                                   *)
(***************************************************************************)
EXTENDS Integers, Sequences, FiniteSets, TLC

\* ------------------------------------------------------------------------
\* Bounds of the model
\* ------------------------------------------------------------------------
\* longest target list (self.groups) a cycle is started with
MaxTargets == 3
\* number of triggers that come due in a run of the scheduler
MaxFirings == 2
\* number of add_job calls in a run of the scheduler
MaxRegs == 2
\* the clock runs for this many steps of half a sync interval
MaxClockSteps == 3
\* number of _check_rate_limit calls in a run of the rate limiter alone
MaxCalls == 4
\* largest max_attempts and largest window_seconds those calls are made with
MaxBudget == 2
MaxWindow == 2
\* the seconds that pass in a run of the rate limiter alone
MaxRateClock == 3
\* number of calls of SecurityManager methods in a run of the vault
MaxVaultCalls == 3

\* ------------------------------------------------------------------------
\* Program constants
\* ------------------------------------------------------------------------
\* default of the max_retries argument of send_messages_with_retry; cycles
\* are called with every retry budget from 1 up to it
DefaultMaxRetries == 3
\* ResilientTimeHandler.sync_interval, seconds
sync_interval == 3600
\* mutant: two instances of a job may run
max_instances_Two == 1 + 1

\* job_defaults['max_instances'] of the AsyncIOScheduler
max_instances == 1
\* `if retry_count < 3` in wrapped_func
RetryLimit == 3

\* the opaque target identifiers and the message pools a cycle may find
Targets == {"A", "B", "C"}
MessagePools == {<<>>, <<"hi">>, <<"hi", "yo">>}

SeqsUpTo(S, n) == UNION {[1..k -> S] : k \in 0..n}

\* ------------------------------------------------------------------------
\* Part I: state of AndroidTelegramBot and of one call of
\* send_messages_with_retry
\* ------------------------------------------------------------------------
VARIABLES
  groups,            \* self.groups: the target list
  messages,          \* self.messages: the message pool
  dpc,               \* position of the coroutine send_messages_with_retry
  max_retries,       \* its argument
  message,           \* random.choice(self.messages)
  successful_sends,  \* its local counter
  it,                \* index the list iterator of `for group_id in self.groups` is at
  group_id,          \* the loop variable
  retry_count,       \* its local counter, per target
  wait_time,         \* argument of the backoff sleep in progress
  inFlight,          \* number of bot.send_message awaits outstanding
  sendLog,           \* every bot.send_message call that has completed, in order
  outcomes,          \* the per-target lines printed: "Sent to" / "Failed"
  warned,            \* "No messages or groups configured" was logged
  batchLine          \* the "Batch complete: s/n sent" line, <<s, n>>, or <<>>

dvars == <<groups, messages, dpc, max_retries, message, successful_sends, it,
           group_id, retry_count, wait_time, inFlight, sendLog, outcomes,
           warned, batchLine>>

\* ------------------------------------------------------------------------
\* Part II: state of ResilientTimeHandler, of ResilientScheduler, of the
\* AsyncIOScheduler it configures, and of the coroutines in progress
\* ------------------------------------------------------------------------
VARIABLES
  now,           \* the clock (time.time, datetime.now), seconds
  date,          \* <<month, day>> of datetime.now(self.timezone)
  last_sync,     \* ResilientTimeHandler.last_sync: <<>> for None, or <<t>>
  offset,        \* ResilientTimeHandler.offset
  scheduler,     \* ResilientScheduler.scheduler: "None", or the state of the
                 \* AsyncIOScheduler it holds, "stopped" or "running"
  _running,      \* ResilientScheduler._running
  _jobs_config,  \* the keys of ResilientScheduler._jobs_config
  regs,          \* the wrapped_func closures add_job has built, in order
  apsJobs,       \* the ids in the job store of the AsyncIOScheduler
  jobFunc,       \* for a stored id, the index in regs of the function it runs
  instances,     \* the executor's count of running instances per job id
  firings,       \* one record per trigger that came due, in order
  cpc            \* position of the coroutine calling initialize() or start()

svars == <<now, date, last_sync, offset, scheduler, _running, _jobs_config,
           regs, apsJobs, jobFunc, instances, firings, cpc>>

\* the firings that were running when shutdown() last returned (observation
\* only: no code reads it)
VARIABLES left_running

\* ------------------------------------------------------------------------
\* Part III: state of SecurityManager
\* ------------------------------------------------------------------------
VARIABLES
  _rate_limiter,  \* self._rate_limiter: for an operation name its recorded
                  \* timestamps (a name not used yet: the empty list)
  rate_calls      \* observation: the calls of _check_rate_limit made by the
                  \* driver of the rate limiter, in order

rvars == <<_rate_limiter, rate_calls>>

VARIABLES
  master_key,     \* self.master_key
  _salt,          \* self._salt
  issued,         \* observation: what encrypt_token was given and returned
  vres,           \* how the last call of a SecurityManager method ended
  vault_calls     \* number of calls of SecurityManager methods made

kvars == <<master_key, _salt, issued, vres, vault_calls>>

VARIABLES
  fs,             \* the files: for a path its file, or NoFile
  save_pc,        \* position of the call of save_encrypted_token in progress
  encrypted       \* its local variable

fvars == <<fs, save_pc, encrypted>>

\* ------------------------------------------------------------------------
\* Part IV: state of a call of SecureConfigManager.migrate_plaintext_token
\* ------------------------------------------------------------------------
VARIABLES
  migrate_pc,     \* position of the call in progress
  migrate_token,  \* its local variable token
  mres            \* observation: the calls made so far and how the last ended

mvars == <<migrate_pc, migrate_token, mres>>

\* ------------------------------------------------------------------------
\* Part V: state of ResilientTimeHandler besides last_sync and offset, and of
\* a call of sync_time
\* ------------------------------------------------------------------------
VARIABLES
  last_network_check,  \* self.last_network_check
  network_available,   \* self.network_available
  sync_pc,             \* position of the coroutine sync_time / get_ntp_time
  server,              \* get_ntp_time: the loop variable i
  attempt_no,             \* get_ntp_time: the loop variable attempt
  sync_log             \* observation: the calls of sync_time that have
                       \* ended, in order

tvars == <<last_network_check, network_available, sync_pc, server,
           attempt_no, sync_log>>

\* ------------------------------------------------------------------------
\* Part VI: the configuration of AndroidTelegramBot and the commands of
\* BotController that change it
\* ------------------------------------------------------------------------
VARIABLES
  interval_minutes,  \* self.interval_minutes
  admin_ids,         \* self.admin_ids
  messaging_active,  \* self.messaging_active
  cmd_pc,            \* "new" before load_config has run, then "idle", or
                     \* "start", "restart" while the handler of /start, of
                     \* /set_interval awaits start_messaging; "down" after
                     \* shutdown, "start_down" and "restart_down" for a
                     \* handler that awaits while the bot shuts down
  conf,              \* the files messages.txt, groups.txt and settings.txt
  cmd_log            \* observation: the commands handled, in order

cvars == <<interval_minutes, admin_ids, messaging_active, cmd_pc, conf,
           cmd_log>>

\* the variables of the parts after Part III
ovars == <<mvars, tvars, cvars>>

\* what the actions of Part IV leave alone besides the variables of Part III
nonMigrate == <<dvars, svars, left_running, tvars, cvars>>

\* what the actions of Part VI leave alone besides self.groups and
\* self.messages
nonConfig == <<dpc, max_retries, message, successful_sends, it, group_id,
               retry_count, wait_time, inFlight, sendLog, outcomes, warned,
               batchLine, svars, left_running, rvars, kvars, fvars, mvars,
               tvars>>

\* what start_messaging, stop_messaging and the scheduler's shutdown may
\* change of the scheduler, and what the commands that call them leave
\* alone besides the variables of Part VI, self.groups and self.messages
jobVars == <<scheduler, _running, _jobs_config, regs, apsJobs, jobFunc, cpc>>
nonMessaging == <<dpc, max_retries, message, successful_sends, it, group_id,
                  retry_count, wait_time, inFlight, sendLog, outcomes, warned,
                  batchLine, now, date, last_sync, offset, instances, firings,
                  rvars, kvars, fvars, mvars, tvars>>

\* what the actions of Part V leave alone besides the clock, last_sync and
\* offset
nonTime == <<scheduler, _running, _jobs_config, regs, apsJobs, jobFunc,
             instances, firings, cpc, left_running, dvars, rvars, kvars,
             fvars, mvars, cvars>>

\* what the actions of Part I, and those of Part II, leave alone besides
\* the variables of the other part
nonDispatch == <<svars, left_running, rvars, kvars, fvars, ovars>>
nonSched == <<dvars, left_running, rvars, kvars, fvars, ovars>>

\* the scheduler part but the clock
schedButNow == <<date, last_sync, offset, scheduler, _running, _jobs_config,
                 regs, apsJobs, jobFunc, instances, firings, cpc, left_running>>

vars == <<dvars, svars, left_running, rvars, kvars, fvars, ovars>>

\* the operation names the callers of _check_rate_limit pass
\* (security_manager.py:109, 133, 297)
Operations == {"encrypt_token", "decrypt_token", "verify_bot"}

\* SecurityManager.__init__ (security_manager.py:34): self._rate_limiter = {}
RNoCall == _rate_limiter = [o \in Operations |-> <<>>] /\ rate_calls = <<>>

\* no method has been called and nothing was returned
NoResult == [op |-> "none", arg |-> <<>>, raised |-> FALSE, message |-> "",
             cause |-> "", value |-> <<>>, performed |-> FALSE]

\* SecurityManager.__init__ (security_manager.py:29-34, 60-72): the master
\* key comes from secrets.token_urlsafe and the salt from secrets.token_bytes;
\* the values drawn are numbered
KNew ==
  /\ master_key = 1
  /\ _salt = 2
  /\ issued = {}
  /\ vres = NoResult
  /\ vault_calls = 0

\* the path save_encrypted_token is given (SecureConfigManager.set_token,
\* security_manager.py:414) and the one it writes first (:174)
filepath == "bot_token.enc"
temp_filepath == "bot_token.enc.tmp"
\* the other files of the configuration directory
\* (migrate_plaintext_token, security_manager.py:370-372)
plaintext_file == "bot_token.txt"
backup_file == "bot_token.txt.bak"
Paths == {filepath, temp_filepath, plaintext_file, backup_file}

NoFile == <<>>

\* no file yet, no save in progress
FNone ==
  /\ fs = [p \in Paths |-> NoFile]
  /\ save_pc = "idle"
  /\ encrypted = <<>>

\* the security manager left alone
VQuiet == RNoCall /\ KNew /\ FNone

\* no call of migrate_plaintext_token has been made; ended is how the last
\* one ended: "nothing" (the condition of :374 was false), "aborted" (the
\* condition of :379 was false), "migrated" or "raised"; backup says whether
\* that call made the backup copy
NoMigration == [calls |-> 0, ended |-> "none", backup |-> FALSE]

MQuiet ==
  /\ migrate_pc = "idle"
  /\ migrate_token = <<>>
  /\ mres = NoMigration

\* time_handler.py:52: self.last_network_check = 0 on the scale of
\* time.time(), which is more than 30 s before the clock of the model starts
NeverChecked == -30

\* ResilientTimeHandler.__init__ (time_handler.py:52-53), no call of
\* sync_time in progress
TQuiet ==
  /\ last_network_check = NeverChecked
  /\ network_available = TRUE
  /\ sync_pc = "idle"
  /\ server = 0
  /\ attempt_no = 0
  /\ sync_log = <<>>

\* main.py:135: the default interval. An interval is held as the decimal
\* text of the Python integer, which has no largest value.
DefaultInterval == <<"5">>

\* no configuration file
NoConf == [messages_txt |-> NoFile, groups_txt |-> NoFile,
           settings_txt |-> NoFile]

\* the bot after load_config found no settings (main.py:135-136), no
\* messaging started (main.py:56), no command handled
CQuiet ==
  /\ interval_minutes = DefaultInterval
  /\ admin_ids = <<>>
  /\ messaging_active = FALSE
  /\ cmd_pc = "idle"
  /\ conf = NoConf
  /\ cmd_log = <<>>

\* the parts after Part III left alone
OQuiet == MQuiet /\ TQuiet /\ CQuiet

NoGroup == "-"

\* the job ids: the one start_messaging registers through add_job, and the
\* one initialize() puts into the AsyncIOScheduler itself
UserJobIds == {"messaging_default"}
JobIds == UserJobIds \cup {"time_sync_job"}

\* the dates a run may happen on: outside and inside the DST window
Dates == {<<3, 24>>, <<3, 25>>}

\* the state ResilientScheduler.__init__ and ResilientTimeHandler.__init__
\* leave (time_handler.py:42-53, 220-226)
SNoRun ==
  /\ now = 0
  /\ last_sync = <<>>
  /\ offset = 0
  /\ scheduler = "None"
  /\ _running = FALSE
  /\ _jobs_config = {}
  /\ regs = <<>>
  /\ apsJobs = {}
  /\ jobFunc = [id \in UserJobIds |-> 0]
  /\ instances = [id \in JobIds |-> 0]
  /\ firings = <<>>
  /\ cpc = "idle"

\* the scheduler part left alone
SQuiet == date = <<3, 24>> /\ SNoRun /\ left_running = {}

\* no call of send_messages_with_retry is in progress
DNoCycle ==
  /\ dpc = "idle"
  /\ max_retries = 0
  /\ message = ""
  /\ successful_sends = 0
  /\ it = 1
  /\ group_id = NoGroup
  /\ retry_count = 0
  /\ wait_time = 0
  /\ inFlight = 0
  /\ sendLog = <<>>
  /\ outcomes = <<>>
  /\ warned = FALSE
  /\ batchLine = <<>>

DInit ==
  /\ groups \in SeqsUpTo(Targets, MaxTargets)
  /\ messages \in MessagePools
  /\ DNoCycle

\* the dispatcher part left alone
DQuiet == groups = <<>> /\ messages = <<>> /\ DNoCycle

\* mutant: the guard forgets the message pool
NothingConfigured_GroupsOnly == groups = <<>>

\* `if not self.messages or not self.groups` (main.py:285)
NothingConfigured == messages = <<>> \/ groups = <<>>

\* main.py:283-290: the call, the guard, random.choice and the counter.
\* random.choice raises IndexError on an empty pool.
CycleStart(R) ==
  /\ dpc = "idle"
  /\ max_retries' = R
  /\ sendLog' = <<>> /\ outcomes' = <<>> /\ batchLine' = <<>>
  /\ IF NothingConfigured
       THEN /\ warned' = TRUE
            /\ dpc' = "returned"
            /\ UNCHANGED <<message, successful_sends, it>>
       ELSE /\ warned' = FALSE
            /\ IF messages = <<>>
                 THEN dpc' = "raised" /\ UNCHANGED message
                 ELSE dpc' = "for" /\ \E i \in 1..Len(messages) : message' = messages[i]
            /\ successful_sends' = 0
            /\ it' = 1
  /\ UNCHANGED <<groups, messages, group_id, retry_count, wait_time, inFlight>>
  /\ UNCHANGED nonDispatch

\* mutant: retry_count is initialised once, before the target loop
ForNext_NoReset ==
  /\ dpc = "for"
  /\ IF it <= Len(groups)
       THEN /\ group_id' = groups[it]
            /\ it' = it + 1
            /\ dpc' = "while"
            /\ UNCHANGED <<batchLine, retry_count>>
       ELSE /\ batchLine' = <<successful_sends, Len(groups)>>
            /\ dpc' = "returned"
            /\ UNCHANGED <<group_id, it, retry_count>>
  /\ UNCHANGED <<groups, messages, max_retries, message, successful_sends,
                 wait_time, inFlight, sendLog, outcomes, warned>>
  /\ UNCHANGED nonDispatch

\* mutant: the loop takes the targets from the end of the list
ForNext_Reversed ==
  /\ dpc = "for"
  /\ IF it <= Len(groups)
       THEN /\ group_id' = groups[Len(groups) + 1 - it]
            /\ it' = it + 1
            /\ retry_count' = 0
            /\ dpc' = "while"
            /\ UNCHANGED batchLine
       ELSE /\ batchLine' = <<successful_sends, Len(groups)>>
            /\ dpc' = "returned"
            /\ UNCHANGED <<group_id, it, retry_count>>
  /\ UNCHANGED <<groups, messages, max_retries, message, successful_sends,
                 wait_time, inFlight, sendLog, outcomes, warned>>
  /\ UNCHANGED nonDispatch

\* main.py:292-293 and 315: the list iterator yields the next target and
\* retry_count starts at 0, or the loop ends and the batch line is printed.
ForNext ==
  /\ dpc = "for"
  /\ IF it <= Len(groups)
       THEN /\ group_id' = groups[it]
            /\ it' = it + 1
            /\ retry_count' = 0
            /\ dpc' = "while"
            /\ UNCHANGED batchLine
       ELSE /\ batchLine' = <<successful_sends, Len(groups)>>
            /\ dpc' = "returned"
            /\ UNCHANGED <<group_id, it, retry_count>>
  /\ UNCHANGED <<groups, messages, max_retries, message, successful_sends,
                 wait_time, inFlight, sendLog, outcomes, warned>>
  /\ UNCHANGED nonDispatch

\* mutant: the loop test is off by one (retry_count <= max_retries)
WhileTest_OffByOne ==
  /\ dpc = "while"
  /\ IF retry_count <= max_retries
       THEN dpc' = "sending" /\ inFlight' = inFlight + 1
       ELSE dpc' = "for" /\ UNCHANGED inFlight
  /\ UNCHANGED <<groups, messages, max_retries, message, successful_sends, it,
                 group_id, retry_count, wait_time, sendLog, outcomes, warned,
                 batchLine>>
  /\ UNCHANGED nonDispatch

\* main.py:295-297: the loop test; when it holds the send is awaited.
WhileTest ==
  /\ dpc = "while"
  /\ IF retry_count < max_retries
       THEN dpc' = "sending" /\ inFlight' = inFlight + 1
       ELSE dpc' = "for" /\ UNCHANGED inFlight
  /\ UNCHANGED <<groups, messages, max_retries, message, successful_sends, it,
                 group_id, retry_count, wait_time, sendLog, outcomes, warned,
                 batchLine>>
  /\ UNCHANGED nonDispatch

\* the target position the loop is at (the iterator has already moved on)
Pos == it - 1

\* mutant: the `break` after a successful send is missing
SendOk_NoBreak ==
  /\ dpc = "sending"
  /\ inFlight' = inFlight - 1
  /\ sendLog' = Append(sendLog, [pos |-> it - 1, target |-> group_id, ok |-> TRUE])
  /\ successful_sends' = successful_sends + 1
  /\ outcomes' = Append(outcomes, [pos |-> it - 1, target |-> group_id,
                                   outcome |-> "Success",
                                   attempts |-> retry_count + 1])
  /\ dpc' = "while"
  /\ UNCHANGED <<groups, messages, max_retries, message, it, group_id,
                 retry_count, wait_time, warned, batchLine>>
  /\ UNCHANGED nonDispatch

\* main.py:297-301: the send returns; count it and leave the while loop.
SendOk ==
  /\ dpc = "sending"
  /\ inFlight' = inFlight - 1
  /\ sendLog' = Append(sendLog, [pos |-> Pos, target |-> group_id, ok |-> TRUE])
  /\ successful_sends' = successful_sends + 1
  /\ outcomes' = Append(outcomes, [pos |-> Pos, target |-> group_id,
                                   outcome |-> "Success",
                                   attempts |-> retry_count + 1])
  /\ dpc' = "for"
  /\ UNCHANGED <<groups, messages, max_retries, message, it, group_id,
                 retry_count, wait_time, warned, batchLine>>
  /\ UNCHANGED nonDispatch

\* main.py:303-313: the send raises; back off and retry, or give the target up.
SendFail ==
  /\ dpc = "sending"
  /\ inFlight' = inFlight - 1
  /\ sendLog' = Append(sendLog, [pos |-> Pos, target |-> group_id, ok |-> FALSE])
  /\ retry_count' = retry_count + 1
  /\ IF retry_count' < max_retries
       THEN /\ wait_time' = 2 ^ retry_count'
            /\ dpc' = "sleeping"
            /\ UNCHANGED outcomes
       ELSE /\ outcomes' = Append(outcomes, [pos |-> Pos, target |-> group_id,
                                             outcome |-> "Failed",
                                             attempts |-> retry_count'])
            /\ dpc' = "while"
            /\ UNCHANGED wait_time
  /\ UNCHANGED <<groups, messages, max_retries, message, successful_sends, it,
                 group_id, warned, batchLine>>
  /\ UNCHANGED nonDispatch

\* main.py:310: asyncio.sleep(wait_time) returns.
SleepDone ==
  /\ dpc = "sleeping"
  /\ dpc' = "while"
  /\ wait_time' = 0
  /\ UNCHANGED <<groups, messages, max_retries, message, successful_sends, it,
                 group_id, retry_count, inFlight, sendLog, outcomes, warned,
                 batchLine>>
  /\ UNCHANGED nonDispatch

\* the call has returned; its locals are gone and the next cycle may start.
CycleReturn ==
  /\ dpc = "returned"
  /\ dpc' = "idle"
  /\ max_retries' = 0 /\ message' = "" /\ successful_sends' = 0 /\ it' = 1
  /\ group_id' = NoGroup /\ retry_count' = 0 /\ wait_time' = 0
  /\ sendLog' = <<>> /\ outcomes' = <<>> /\ warned' = FALSE /\ batchLine' = <<>>
  /\ UNCHANGED <<groups, messages, inFlight>>
  /\ UNCHANGED nonDispatch

DNext ==
  \/ \E R \in 1..DefaultMaxRetries : CycleStart(R)
  \/ ForNext
  \/ WhileTest
  \/ SendOk
  \/ SendFail
  \/ SleepDone
  \/ CycleReturn

DispatchInit == DInit /\ SQuiet /\ VQuiet /\ OQuiet

SpecDispatch == DispatchInit /\ [][DNext]_vars

\* ------------------------------------------------------------------------
\* Part I: properties of a dispatch cycle
\* ------------------------------------------------------------------------
\* the completed sends of the cycle that went to target position p
SendsAt(p) == SelectSeq(sendLog, LAMBDA e : e.pos = p)

\* the outcome lines of the cycle for target position p
OutcomesAt(p) == SelectSeq(outcomes, LAMBDA o : o.pos = p)

Succeeded == Len(SelectSeq(outcomes, LAMBDA o : o.outcome = "Success"))
Failed == Len(SelectSeq(outcomes, LAMBDA o : o.outcome = "Failed"))

\* the cycle went through the target loop and has returned
CycleDone == dpc = "returned" /\ ~warned

\* C1: a dispatch cycle over a non-empty pool and N targets ends with exactly
\* one outcome line per target position, Success or Failed, so that
\* succeeded + failed = N (and the batch line reads succeeded/N); it gets
\* there within N * max_retries sends.
C1_DispatchAccounting ==
  /\ Len(sendLog) <= Len(groups) * max_retries
  /\ CycleDone =>
       /\ \A p \in 1..Len(groups) :
            /\ Len(OutcomesAt(p)) = 1
            /\ OutcomesAt(p)[1].outcome \in {"Success", "Failed"}
       /\ Len(outcomes) = Len(groups)
       /\ Succeeded = successful_sends
       /\ Succeeded + Failed = Len(groups)
       /\ batchLine = <<successful_sends, Len(groups)>>

C1_Witness ==
  /\ CycleDone
  /\ Len(groups) = 3
  /\ Succeeded = 2
  /\ Failed = 1

\* the injected failure pattern of the end-to-end scenario: A succeeds on
\* attempt 1, B on attempt 3, C never
ScenarioOk(target, attempt) ==
  \/ target = "A"
  \/ target = "B" /\ attempt >= 3

\* every completed send of the cycle got the result the scenario injects
ScenarioRun ==
  /\ groups = <<"A", "B", "C">>
  /\ max_retries = 3
  /\ \A j \in 1..Len(sendLog) :
       sendLog[j].ok =
         ScenarioOk(sendLog[j].target,
                    Len(SelectSeq(SubSeq(sendLog, 1, j),
                                  LAMBDA e : e.pos = sendLog[j].pos)))

\* C2: an outcome line for a target is Success with attempts = k exactly
\* when the k-th send to it was the first to succeed (k <= max_retries), and
\* Failed with attempts = max_retries exactly when max_retries sends to it
\* all failed; no send to it follows its outcome. In the scenario [A, B, C],
\* max_retries = 3, the cycle ends with 2 succeeded, 1 failed, attempts
\* 1, 3, 3, seven sends, and the outcome lines in the order A, B, C.
C2_AttemptCounting ==
  /\ \A i \in 1..Len(outcomes) :
       LET o == outcomes[i]
           s == SendsAt(o.pos)
       IN  /\ o.attempts = Len(s)
           /\ o.attempts \in 1..max_retries
           /\ \A j \in 1..(Len(s) - 1) : ~s[j].ok
           /\ o.outcome = "Success" => s[Len(s)].ok
           /\ o.outcome = "Failed" => ~s[Len(s)].ok /\ o.attempts = max_retries
  /\ (ScenarioRun /\ CycleDone) =>
       /\ successful_sends = 2
       /\ Failed = 1
       /\ [i \in 1..Len(outcomes) |-> outcomes[i].attempts] = <<1, 3, 3>>
       /\ [i \in 1..Len(outcomes) |-> outcomes[i].target] = <<"A", "B", "C">>
       /\ [i \in 1..Len(outcomes) |-> outcomes[i].outcome]
            = <<"Success", "Success", "Failed">>
       /\ Len(sendLog) = 7

C2_Witness ==
  /\ ScenarioRun
  /\ CycleDone
  /\ Len(sendLog) = 7

\* C3: a target's retry budget and outcome are its own: while the loop is at
\* position p, retry_count counts the failed sends to p alone; a position
\* never gets more than max_retries sends; its outcome is Success exactly
\* when one of its own sends succeeded; and an exhausted target never ends
\* the cycle: once the cycle is done every position was sent to.
C3_FailureIsolation ==
  /\ dpc # "raised"
  /\ dpc \in {"while", "sending", "sleeping"} =>
       retry_count = Len(SelectSeq(SendsAt(Pos), LAMBDA e : ~e.ok))
  /\ \A p \in 1..Len(groups) :
       /\ Len(SendsAt(p)) <= max_retries
       /\ \A i \in 1..Len(OutcomesAt(p)) :
            OutcomesAt(p)[i].outcome =
              IF \E j \in 1..Len(SendsAt(p)) : SendsAt(p)[j].ok
                THEN "Success" ELSE "Failed"
       /\ CycleDone => Len(SendsAt(p)) >= 1

C3_Witness ==
  /\ CycleDone
  /\ Len(outcomes) >= 2
  /\ outcomes[1].outcome = "Failed"
  /\ outcomes[2].outcome = "Success"
  /\ outcomes[2].attempts = max_retries
  /\ max_retries >= 2

\* C4: sends are sequential and in list order: at most one send is
\* outstanding, the sends go to the targets in the order of the list, and a
\* send to position p is outstanding only when every earlier position has
\* its outcome.
C4_SequentialOrdered ==
  /\ inFlight <= 1
  /\ inFlight = 1 <=> dpc = "sending"
  /\ \A j \in 1..Len(sendLog) :
       /\ sendLog[j].pos \in 1..Len(groups)
       /\ sendLog[j].target = groups[sendLog[j].pos]
       /\ j > 1 => sendLog[j - 1].pos <= sendLog[j].pos
  /\ dpc = "sending" =>
       /\ group_id = groups[Pos]
       /\ \A p \in 1..(Pos - 1) : Len(OutcomesAt(p)) = 1
       /\ Len(OutcomesAt(Pos)) = 0

C4_Witness ==
  /\ dpc = "sending"
  /\ Pos = 2
  /\ groups[1] # groups[2]
  /\ outcomes[1].outcome = "Failed"
  /\ retry_count >= 1

\* C5: with an empty message pool or an empty target list a cycle sends
\* nothing, prints no outcome and no batch line, and returns normally after
\* the warning.
C5_EmptyInputNoOp ==
  (messages = <<>> \/ groups = <<>>) =>
    /\ dpc \in {"idle", "returned"}
    /\ sendLog = <<>>
    /\ outcomes = <<>>
    /\ inFlight = 0
    /\ batchLine = <<>>
    /\ dpc = "returned" => warned

C5_Witness ==
  /\ dpc = "returned"
  /\ warned
  /\ messages = <<>>
  /\ groups # <<>>

\* ------------------------------------------------------------------------
\* Part II: ResilientTimeHandler
\* ------------------------------------------------------------------------
\* time_handler.py:152-170
_is_dst_transition_period ==
  IF date[1] = 3 THEN date[2] >= 25
  ELSE IF date[1] = 10 THEN date[2] >= 25
  ELSE date[1] \in {2, 4, 9, 11}

\* mutant: a sync is needed as soon as the interval has passed
is_sync_needed_Inclusive ==
  IF last_sync = <<>> THEN TRUE
  ELSE LET interval == IF _is_dst_transition_period
                         THEN sync_interval \div 2 ELSE sync_interval
       IN  now - last_sync[1] >= interval

\* time_handler.py:188-197
is_sync_needed ==
  IF last_sync = <<>> THEN TRUE
  ELSE LET interval == IF _is_dst_transition_period
                         THEN sync_interval \div 2 ELSE sync_interval
       IN  now - last_sync[1] > interval

\* what get_ntp_time may return (time_handler.py:75-116): <<>> for None, or
\* the tx_time of the first valid response; the servers are ahead by 7 s
NtpResults == {<<>>, <<now + 7>>}

\* mutant: a sync that fails forgets the last one
sync_time_Forgetful(ntp_time) ==
  IF ntp_time = <<>>
    THEN offset' = 0 /\ last_sync' = <<>>
    ELSE offset' = ntp_time[1] - now /\ last_sync' = <<now>>

\* mutant: the coroutine is suspended between the two writes, so that the
\* new offset can be read together with the old last_sync
sync_time_Torn(ntp_time) ==
  IF ntp_time = <<>>
    THEN UNCHANGED <<last_sync, offset>>
    ELSE offset' = ntp_time[1] - now /\ UNCHANGED last_sync

\* time_handler.py:118-150, from the return of get_ntp_time on: a result
\* sets offset and last_sync, None (or any exception) leaves them
sync_time(ntp_time) ==
  IF ntp_time = <<>>
    THEN UNCHANGED <<last_sync, offset>>
    ELSE offset' = ntp_time[1] - now /\ last_sync' = <<now>>

\* whether that call of sync_time returns True
SyncResult(ntp_time) == IF ntp_time = <<>> THEN "failed" ELSE "ok"

\* the clock advances by half a sync interval
Tick ==
  /\ now < MaxClockSteps * (sync_interval \div 2)
  /\ now' = now + (sync_interval \div 2)
  /\ UNCHANGED <<date, last_sync, offset, scheduler, _running, _jobs_config,
                 regs, apsJobs, jobFunc, instances, firings, cpc>>
  /\ UNCHANGED nonSched

\* ------------------------------------------------------------------------
\* Part II: ResilientScheduler.initialize and start
\* ------------------------------------------------------------------------
\* time_handler.py:305-318 once self.scheduler exists: AsyncIOScheduler.start
\* raises SchedulerAlreadyRunningError on a running scheduler, and start()
\* then sleeps 10 s and calls itself
StartTry ==
  IF scheduler = "stopped"
    THEN scheduler' = "running" /\ _running' = TRUE /\ cpc' = "idle"
    ELSE cpc' = "start_sleep" /\ UNCHANGED <<scheduler, _running>>

\* time_handler.py:228-232: initialize() is called (by AndroidTelegramBot.
\* initialize) and awaits the initial sync_time
InitializeCall ==
  /\ cpc = "idle"
  /\ scheduler = "None"
  /\ cpc' = "initialize"
  /\ UNCHANGED <<now, date, last_sync, offset, scheduler, _running,
                 _jobs_config, regs, apsJobs, jobFunc, instances, firings>>
  /\ UNCHANGED nonSched

\* time_handler.py:300-307: start() is called; without a scheduler it awaits
\* initialize() first
StartCall ==
  /\ cpc = "idle"
  /\ IF scheduler = "None"
       THEN cpc' = "start_initialize" /\ UNCHANGED <<scheduler, _running>>
       ELSE StartTry
  /\ UNCHANGED <<now, date, last_sync, offset, _jobs_config, regs, apsJobs,
                 jobFunc, instances, firings>>
  /\ UNCHANGED nonSched

\* time_handler.py:232-267: the initial sync returns, the AsyncIOScheduler is
\* built with time_sync_job in it; under start() it is then started
InitializeDone(ntp_time) ==
  /\ cpc \in {"initialize", "start_initialize"}
  /\ sync_time(ntp_time)
  /\ apsJobs' = {"time_sync_job"}
  /\ IF cpc = "initialize"
       THEN scheduler' = "stopped" /\ cpc' = "idle" /\ UNCHANGED _running
       ELSE scheduler' = "running" /\ _running' = TRUE /\ cpc' = "idle"
  /\ UNCHANGED <<now, date, _jobs_config, regs, jobFunc, instances, firings>>
  /\ UNCHANGED nonSched

\* time_handler.py:317-318: the 10 s sleep is over and start() runs again
StartSleepDone ==
  /\ cpc = "start_sleep"
  /\ StartTry
  /\ UNCHANGED <<now, date, last_sync, offset, _jobs_config, regs, apsJobs,
                 jobFunc, instances, firings>>
  /\ UNCHANGED nonSched

\* ------------------------------------------------------------------------
\* Part II: add_job, remove_job
\* ------------------------------------------------------------------------
\* time_handler.py:320-363, called with replace_existing=True as
\* start_messaging does: the id is stored, a new wrapped_func (which has no
\* _retry_count attribute yet) is built and given to the AsyncIOScheduler
add_job(id, retry_on_failure) ==
  /\ scheduler # "None"
  /\ Len(regs) < MaxRegs
  /\ _jobs_config' = _jobs_config \cup {id}
  /\ regs' = Append(regs, [id |-> id, retry_on_failure |-> retry_on_failure,
                           _retry_count |-> 0])
  /\ apsJobs' = apsJobs \cup {id}
  /\ jobFunc' = [jobFunc EXCEPT ![id] = Len(regs) + 1]
  /\ UNCHANGED <<now, date, last_sync, offset, scheduler, _running, instances,
                 firings, cpc>>
  /\ UNCHANGED nonSched

\* time_handler.py:365-374
remove_job(id) ==
  /\ id \in _jobs_config \/ id \in apsJobs
  /\ apsJobs' = apsJobs \ {id}
  /\ _jobs_config' = _jobs_config \ {id}
  /\ UNCHANGED <<now, date, last_sync, offset, scheduler, _running, regs,
                 jobFunc, instances, firings, cpc>>
  /\ UNCHANGED nonSched

\* ------------------------------------------------------------------------
\* Part II: the executor and the firings
\* ------------------------------------------------------------------------
\* the record of a trigger that came due
NewFiring(id, st) ==
  [id |-> id,
   reg |-> IF id \in UserJobIds THEN jobFunc[id] ELSE 0,
   st |-> st,                                  \* "running", "returned", "raised", "skipped"
   pc |-> IF st = "running" THEN "entry" ELSE "none",
   needed |-> "unset",                         \* what is_sync_needed() gave in this call
   sync |-> "none",                            \* how the sync of this call ended
   calls |-> 0,                                \* invocations of the real callback
   sleeps |-> <<>>,                            \* the backoff sleeps, in order
   start |-> IF id \in UserJobIds THEN regs[jobFunc[id]]._retry_count ELSE 0,
   last |-> "none"]                            \* how the last callback call ended

\* mutant: a trigger that finds the id running is queued for later
Trigger_Queued(id) ==
  /\ scheduler = "running"
  /\ id \in apsJobs
  /\ Len(firings) < MaxFirings
  /\ IF instances[id] >= max_instances
       THEN /\ firings' = Append(firings, NewFiring(id, "queued"))
            /\ UNCHANGED instances
       ELSE /\ firings' = Append(firings, NewFiring(id, "running"))
            /\ instances' = [instances EXCEPT ![id] = @ + 1]
  /\ UNCHANGED <<now, date, last_sync, offset, scheduler, _running,
                 _jobs_config, regs, apsJobs, jobFunc, cpc>>
  /\ UNCHANGED nonSched

\* time_handler.py:239-251: a trigger of a stored job comes due on the running
\* scheduler; with max_instances instances of the id running the executor
\* refuses the run and the scheduler skips it, otherwise the run starts
Trigger(id) ==
  /\ scheduler = "running"
  /\ id \in apsJobs
  /\ Len(firings) < MaxFirings
  /\ IF instances[id] >= max_instances
       THEN /\ firings' = Append(firings, NewFiring(id, "skipped"))
            /\ UNCHANGED instances
       ELSE /\ firings' = Append(firings, NewFiring(id, "running"))
            /\ instances' = [instances EXCEPT ![id] = @ + 1]
  /\ UNCHANGED <<now, date, last_sync, offset, scheduler, _running,
                 _jobs_config, regs, apsJobs, jobFunc, cpc>>
  /\ UNCHANGED nonSched

\* firing k is running at the given position
At(k, pc) == firings[k].st = "running" /\ firings[k].pc = pc

\* the run of firing k is over: its frames are gone (what is kept of it is
\* its callback calls, its sleeps and how the last call ended) and the
\* executor releases the instance
Finish(k, st, last) ==
  /\ firings' = [firings EXCEPT ![k] = [@ EXCEPT !.st = st, !.pc = "none",
                    !.needed = "unset", !.sync = "none", !.last = last]]
  /\ instances' = [instances EXCEPT ![firings[k].id] = @ - 1]

\* time_handler.py:337-344: wrapped_func is entered (by the executor, or by
\* itself for a retry); it asks is_sync_needed and awaits sync_time, or
\* calls the real callback at once
WrapEntry(k) ==
  /\ At(k, "entry")
  /\ firings[k].id \in UserJobIds
  /\ IF is_sync_needed
       THEN firings' = [firings EXCEPT ![k] = [@ EXCEPT !.needed = "yes",
                          !.sync = "none", !.pc = "syncing"]]
       ELSE firings' = [firings EXCEPT ![k] = [@ EXCEPT !.needed = "no",
                          !.sync = "none", !.pc = "callback",
                          !.calls = @ + 1]]
  /\ UNCHANGED <<now, date, last_sync, offset, scheduler, _running,
                 _jobs_config, regs, apsJobs, jobFunc, instances, cpc>>
  /\ UNCHANGED nonSched

\* mutant: a failed sync ends the run before the real callback is called
WrapSyncDone_FailAborts(k, ntp_time) ==
  /\ firings[k].st = "running" /\ firings[k].pc = "syncing"
  /\ firings[k].id \in UserJobIds
  /\ sync_time(ntp_time)
  /\ IF ntp_time = <<>>
       THEN /\ firings' = [firings EXCEPT ![k] = [@ EXCEPT !.st = "returned",
                             !.pc = "none", !.needed = "unset"]]
            /\ instances' = [instances EXCEPT ![firings[k].id] = @ - 1]
       ELSE /\ firings' = [firings EXCEPT ![k] = [@ EXCEPT !.sync = "ok",
                             !.pc = "callback", !.calls = @ + 1]]
            /\ UNCHANGED instances
  /\ UNCHANGED <<now, date, scheduler, _running, _jobs_config, regs, apsJobs,
                 jobFunc, cpc>>
  /\ UNCHANGED nonSched

\* time_handler.py:341-344: sync_time returns True or False and the real
\* callback is called
WrapSyncDone(k, ntp_time) ==
  /\ At(k, "syncing")
  /\ firings[k].id \in UserJobIds
  /\ sync_time(ntp_time)
  /\ firings' = [firings EXCEPT ![k] = [@ EXCEPT !.sync = SyncResult(ntp_time),
                   !.pc = "callback", !.calls = @ + 1]]
  /\ UNCHANGED <<now, date, scheduler, _running, _jobs_config, regs, apsJobs,
                 jobFunc, instances, cpc>>
  /\ UNCHANGED nonSched

\* time_handler.py:344: the real callback returns, and so does every
\* wrapped_func frame of the firing
CallbackReturn(k) ==
  /\ At(k, "callback")
  /\ Finish(k, "returned", "returned")
  /\ UNCHANGED <<now, date, last_sync, offset, scheduler, _running,
                 _jobs_config, regs, apsJobs, jobFunc, cpc>>
  /\ UNCHANGED nonSched

\* mutant: the retry test is off by one (retry_count <= 3)
CallbackRaise_OffByOne(k) ==
  /\ firings[k].st = "running" /\ firings[k].pc = "callback"
  /\ LET f == firings[k]
         retry_count_ == regs[f.reg]._retry_count
     IN  IF regs[f.reg].retry_on_failure /\ retry_count_ <= RetryLimit
           THEN /\ regs' = [regs EXCEPT ![f.reg]._retry_count = retry_count_ + 1]
                /\ firings' = [firings EXCEPT ![k] = [@ EXCEPT !.pc = "backoff",
                                 !.last = "raised",
                                 !.sleeps = Append(@, 2 ^ retry_count_)]]
                /\ UNCHANGED instances
           ELSE /\ firings' = [firings EXCEPT ![k] = [@ EXCEPT !.st = "returned",
                                 !.pc = "none", !.needed = "unset",
                                 !.sync = "none", !.last = "raised"]]
                /\ instances' = [instances EXCEPT ![f.id] = @ - 1]
                /\ UNCHANGED regs
  /\ UNCHANGED <<now, date, last_sync, offset, scheduler, _running,
                 _jobs_config, apsJobs, jobFunc, cpc>>
  /\ UNCHANGED nonSched

\* time_handler.py:349-361: the real callback raises an Exception: with
\* retry_on_failure and the function's _retry_count below the limit the count
\* goes up and the backoff sleep starts; otherwise the error is logged and
\* wrapped_func returns
CallbackRaise(k) ==
  /\ At(k, "callback")
  /\ LET f == firings[k]
         retry_count_ == regs[f.reg]._retry_count
     IN  IF regs[f.reg].retry_on_failure /\ retry_count_ < RetryLimit
           THEN /\ regs' = [regs EXCEPT ![f.reg]._retry_count = retry_count_ + 1]
                /\ firings' = [firings EXCEPT ![k] = [@ EXCEPT !.pc = "backoff",
                                 !.last = "raised",
                                 !.sleeps = Append(@, 2 ^ retry_count_)]]
                /\ UNCHANGED instances
           ELSE /\ Finish(k, "returned", "raised")
                /\ UNCHANGED regs
  /\ UNCHANGED <<now, date, last_sync, offset, scheduler, _running,
                 _jobs_config, apsJobs, jobFunc, cpc>>
  /\ UNCHANGED nonSched

\* time_handler.py:358-359: the backoff sleep is over and wrapped_func calls
\* itself
BackoffDone(k) ==
  /\ At(k, "backoff")
  /\ firings' = [firings EXCEPT ![k] = [@ EXCEPT !.pc = "entry",
                   !.needed = "unset", !.sync = "none"]]
  /\ UNCHANGED <<now, date, last_sync, offset, scheduler, _running,
                 _jobs_config, regs, apsJobs, jobFunc, instances, cpc>>
  /\ UNCHANGED nonSched

\* time_handler.py:273-283: _periodic_time_sync is entered; it awaits
\* sync_time when a sync is needed and returns otherwise
PeriodicEntry(k) ==
  /\ At(k, "entry")
  /\ firings[k].id = "time_sync_job"
  /\ IF is_sync_needed
       THEN /\ firings' = [firings EXCEPT ![k] = [@ EXCEPT !.needed = "yes",
                             !.pc = "syncing"]]
            /\ UNCHANGED instances
       ELSE Finish(k, "returned", "none")
  /\ UNCHANGED <<now, date, last_sync, offset, scheduler, _running,
                 _jobs_config, regs, apsJobs, jobFunc, cpc>>
  /\ UNCHANGED nonSched

\* time_handler.py:278: its sync_time returns
PeriodicSyncDone(k, ntp_time) ==
  /\ At(k, "syncing")
  /\ firings[k].id = "time_sync_job"
  /\ sync_time(ntp_time)
  /\ Finish(k, "returned", "none")
  /\ UNCHANGED <<now, date, scheduler, _running, _jobs_config, regs, apsJobs,
                 jobFunc, cpc>>
  /\ UNCHANGED nonSched

\* the firings on record
Firings == 1..Len(firings)

\* The scheduler from its construction on: initialize, start, add_job and
\* remove_job in any order, triggers of both jobs and their runs.
SchedInit ==
  date = <<3, 24>> /\ SNoRun /\ left_running = {} /\ DQuiet /\ VQuiet /\ OQuiet

SchedNext ==
  \/ InitializeCall
  \/ StartCall
  \/ \E t \in NtpResults : InitializeDone(t)
  \/ StartSleepDone
  \/ \E id \in UserJobIds, r \in BOOLEAN : add_job(id, r)
  \/ \E id \in UserJobIds : remove_job(id)
  \/ \E id \in JobIds : Trigger(id)
  \/ \E k \in Firings : WrapEntry(k)
  \/ \E k \in Firings, t \in NtpResults : WrapSyncDone(k, t)
  \/ \E k \in Firings : CallbackReturn(k)
  \/ \E k \in Firings : CallbackRaise(k)
  \/ \E k \in Firings : BackoffDone(k)
  \/ \E k \in Firings : PeriodicEntry(k)
  \/ \E k \in Firings, t \in NtpResults : PeriodicSyncDone(k, t)

SpecSched == SchedInit /\ [][SchedNext]_vars

\* One job registered through add_job on the started scheduler, with or
\* without retry_on_failure, after an initial sync that succeeded or failed:
\* its triggers and runs while the clock advances.
WrapInit ==
  /\ OQuiet
  /\ date \in Dates
  /\ now = 0
  /\ \E t \in NtpResults :
       IF t = <<>> THEN last_sync = <<>> /\ offset = 0
                   ELSE last_sync = <<now>> /\ offset = t[1] - now
  /\ scheduler = "running"
  /\ _running = TRUE
  /\ _jobs_config = {"messaging_default"}
  /\ \E r \in BOOLEAN :
       regs = <<[id |-> "messaging_default", retry_on_failure |-> r,
                 _retry_count |-> 0]>>
  /\ apsJobs = {"time_sync_job", "messaging_default"}
  /\ jobFunc = [id \in UserJobIds |-> 1]
  /\ instances = [id \in JobIds |-> 0]
  /\ firings = <<>>
  /\ cpc = "idle"
  /\ left_running = {}
  /\ DQuiet
  /\ VQuiet

WrapNext ==
  \/ Tick
  \/ \E id \in UserJobIds : Trigger(id)
  \/ \E k \in Firings : WrapEntry(k)
  \/ \E k \in Firings, t \in NtpResults : WrapSyncDone(k, t)
  \/ \E k \in Firings : CallbackReturn(k)
  \/ \E k \in Firings : CallbackRaise(k)
  \/ \E k \in Firings : BackoffDone(k)

SpecWrap == WrapInit /\ [][WrapNext]_vars

\* ------------------------------------------------------------------------
\* Part II: ResilientScheduler.shutdown
\* ------------------------------------------------------------------------
\* mutant: shutdown clears the flag but leaves the AsyncIOScheduler running
shutdown_FlagOnly ==
  /\ scheduler # "None"
  /\ _running
  /\ _running' = FALSE
  /\ left_running' = {k \in Firings : firings[k].st = "running"}
  /\ UNCHANGED <<now, date, last_sync, offset, scheduler, _jobs_config, regs,
                 apsJobs, jobFunc, instances, firings, cpc>>
  /\ UNCHANGED <<dvars, rvars, kvars, fvars, ovars>>

\* time_handler.py:382-390, a plain (not async) method: on a scheduler that
\* exists and is flagged running it calls AsyncIOScheduler.shutdown(wait=
\* False), which stops the scheduler without waiting for the runs in
\* progress, and clears the flag; otherwise it does nothing
shutdown ==
  /\ scheduler # "None"
  /\ _running
  /\ scheduler' = "stopped"
  /\ _running' = FALSE
  /\ left_running' = {k \in Firings : firings[k].st = "running"}
  /\ UNCHANGED <<now, date, last_sync, offset, _jobs_config, regs, apsJobs,
                 jobFunc, instances, firings, cpc>>
  /\ UNCHANGED <<dvars, rvars, kvars, fvars, ovars>>

\* time_handler.py:346-348: a run that shutdown left in progress is either
\* left to go on or cancelled by the executor; CancelledError is then raised
\* at the await the run is suspended in, wrapped_func logs it and raises it
\* again (_periodic_time_sync does not catch it), and the executor releases
\* the instance
Cancelled(k) ==
  /\ k \in left_running
  /\ firings[k].st = "running"
  /\ Finish(k, "cancelled", firings[k].last)
  /\ UNCHANGED <<now, date, last_sync, offset, scheduler, _running,
                 _jobs_config, regs, apsJobs, jobFunc, cpc>>
  /\ UNCHANGED nonSched

\* The started scheduler with the messaging job registered, as
\* start_messaging leaves it: triggers of both jobs and their runs, shutdown,
\* and start called again.
ShutInit ==
  /\ OQuiet
  /\ date = <<3, 24>>
  /\ now = 0
  /\ \E t \in NtpResults :
       IF t = <<>> THEN last_sync = <<>> /\ offset = 0
                   ELSE last_sync = <<now>> /\ offset = t[1] - now
  /\ scheduler = "running"
  /\ _running = TRUE
  /\ _jobs_config = {"messaging_default"}
  /\ \E r \in BOOLEAN :
       regs = <<[id |-> "messaging_default", retry_on_failure |-> r,
                 _retry_count |-> 0]>>
  /\ apsJobs = {"time_sync_job", "messaging_default"}
  /\ jobFunc = [id \in UserJobIds |-> 1]
  /\ instances = [id \in JobIds |-> 0]
  /\ firings = <<>>
  /\ cpc = "idle"
  /\ left_running = {}
  /\ DQuiet
  /\ VQuiet

ShutNext ==
  \/ shutdown
  \/ \E k \in Firings : Cancelled(k)
  \/ StartCall
  \/ StartSleepDone
  \/ \E id \in JobIds : Trigger(id)
  \/ \E k \in Firings : WrapEntry(k)
  \/ \E k \in Firings, t \in NtpResults : WrapSyncDone(k, t)
  \/ \E k \in Firings : CallbackReturn(k)
  \/ \E k \in Firings : CallbackRaise(k)
  \/ \E k \in Firings : BackoffDone(k)
  \/ \E k \in Firings : PeriodicEntry(k)
  \/ \E k \in Firings, t \in NtpResults : PeriodicSyncDone(k, t)

SpecShut == ShutInit /\ [][ShutNext]_vars

\* ------------------------------------------------------------------------
\* Part III: SecurityManager._check_rate_limit
\* ------------------------------------------------------------------------
\* mutant: an attempt exactly window_seconds old is still counted
Pruned_Inclusive(operation, window_seconds) ==
  SelectSeq(_rate_limiter[operation],
            LAMBDA timestamp : now - timestamp <= window_seconds)

\* security_manager.py:86-95: `now = time.time()` and the list of the
\* operation without its old attempts
Pruned(operation, window_seconds) ==
  SelectSeq(_rate_limiter[operation],
            LAMBDA timestamp : now - timestamp < window_seconds)

\* mutant: the budget test is off by one
Allowed_OffByOne(operation, max_attempts, window_seconds) ==
  ~(Len(Pruned(operation, window_seconds)) > max_attempts)

\* security_manager.py:98-104: what the call returns
Allowed(operation, max_attempts, window_seconds) ==
  ~(Len(Pruned(operation, window_seconds)) >= max_attempts)

\* mutant: the attempt is recorded before the budget is tested
_check_rate_limit_RecordsDenied(operation, max_attempts, window_seconds) ==
  _rate_limiter' = [_rate_limiter EXCEPT ![operation] =
                      Append(Pruned(operation, window_seconds), now)]

\* security_manager.py:84-104: what the call does to self._rate_limiter
_check_rate_limit(operation, max_attempts, window_seconds) ==
  _rate_limiter' = [_rate_limiter EXCEPT ![operation] =
     IF Allowed(operation, max_attempts, window_seconds)
       THEN Append(Pruned(operation, window_seconds), now)
       ELSE Pruned(operation, window_seconds)]

\* a caller calls _check_rate_limit; as at the call sites, an operation
\* name always comes with the same budget and every name with the same
\* window
RateCall(operation, max_attempts, window_seconds) ==
  /\ Len(rate_calls) < MaxCalls
  /\ \A i \in 1..Len(rate_calls) :
       /\ rate_calls[i].window_seconds = window_seconds
       /\ rate_calls[i].operation = operation =>
            rate_calls[i].max_attempts = max_attempts
  /\ _check_rate_limit(operation, max_attempts, window_seconds)
  /\ rate_calls' = Append(rate_calls,
       [operation |-> operation, max_attempts |-> max_attempts,
        window_seconds |-> window_seconds, at |-> now,
        recorded |-> _rate_limiter[operation],
        allowed |-> Allowed(operation, max_attempts, window_seconds)])
  /\ UNCHANGED <<now, schedButNow, dvars, kvars, fvars, ovars>>

\* a second passes
Elapse ==
  /\ now < MaxRateClock
  /\ now' = now + 1
  /\ UNCHANGED <<schedButNow, dvars, rvars, kvars, fvars, ovars>>

\* the operation names the rate limiter alone is called for
RateOps == {"encrypt_token", "verify_bot"}

\* The rate limiter of a new SecurityManager, called for two operations
\* while time passes.
RateInit == SQuiet /\ DQuiet /\ VQuiet /\ OQuiet

RateNext ==
  \/ Elapse
  \/ \E o \in RateOps, M \in 1..MaxBudget, W \in 1..MaxWindow : RateCall(o, M, W)

SpecRate == RateInit /\ [][RateNext]_vars

\* ------------------------------------------------------------------------
\* Part III: tokens and SecurityManager._validate_token_format
\* ------------------------------------------------------------------------
\* a string is the sequence of its characters
Rep(c, n) == [i \in 1..n |-> c]

\* "123456789:" and 35 times "A" (45 characters), "1234567890:" and 50 times
\* "A" (61 characters), and "abc:xyz"
ExampleToken == <<"1", "2", "3", "4", "5", "6", "7", "8", "9", ":">> \o Rep("A", 35)
LongToken ==
  <<"1", "2", "3", "4", "5", "6", "7", "8", "9", "0", ":">> \o Rep("A", 50)
BadToken == <<"a", "b", "c", ":", "x", "y", "z">>

\* the tokens the vault is called with
TokenPool == {ExampleToken, LongToken, BadToken}

DigitChars == {"0", "1", "2", "3", "4", "5", "6", "7", "8", "9"}
\* the letters that occur in the tokens of the model
LetterChars == {"A", "a", "b", "c", "x", "y", "z"}
\* [A-Za-z0-9_-] (security_manager.py:284)
HashChars == LetterChars \cup DigitChars \cup {"_", "-"}
\* '0123456789abcdef' (security_manager.py:288)
SuspiciousChars == DigitChars \cup {"a", "b", "c", "d", "e", "f"}

\* security_manager.py:260, 273, 280, 288
MinTokenLen == 45
MaxBotIdDigits == 10
MinHashLen == 35
MaxHashLen == 50
SuspiciousRun == 10

\* the positions of ':' in a token
Colons(token) == {i \in 1..Len(token) : token[i] = ":"}

Whitespace == {" ", "\t", "\n", "\r"}

\* str.strip() (security_manager.py:377), and what int() does to its text
\* first
strip(text) ==
  LET I == {i \in 1..Len(text) : text[i] \notin Whitespace}
  IN  IF I = {} THEN <<>>
      ELSE SubSeq(text, CHOOSE i \in I : \A j \in I : i <= j,
                        CHOOSE i \in I : \A j \in I : i >= j)

\* the text int() reads the digits from: without the blanks around it,
\* without its sign, and without the single underscores that stand between
\* two digits
IntBody(part) ==
  LET t == strip(part)
      u == IF t # <<>> /\ t[1] \in {"+", "-"} THEN Tail(t) ELSE t
      Between(i) == /\ 1 < i
                    /\ i < Len(u)
                    /\ u[i - 1] \in DigitChars
                    /\ u[i + 1] \in DigitChars
  IN  SelectSeq([i \in 1..Len(u) |->
                   IF u[i] = "_" /\ Between(i) THEN "skip" ELSE u[i]],
                LAMBDA c : c # "skip")

\* int(parts[0]) succeeds and 0 < bot_id <= 9999999999
\* (security_manager.py:271-276): after the blanks, a '+' and the
\* underscores between digits, all digits, one of them not 0, at most 10
\* digits after the leading zeros
BotIdOk(part) ==
  LET b == IntBody(part)
  IN  /\ b # <<>>
      /\ strip(part)[1] # "-"
      /\ \A i \in 1..Len(b) : b[i] \in DigitChars
      /\ \E i \in 1..Len(b) :
           /\ b[i] # "0"
           /\ \A j \in 1..(i - 1) : b[j] = "0"
           /\ Len(b) - i + 1 <= MaxBotIdDigits

\* re.match(r'^[A-Za-z0-9_-]{35,50}$', hash_part) (security_manager.py:284):
\* `$` also matches before a newline that ends the text
HashMatches(hash_part) ==
  LET h == IF hash_part # <<>> /\ hash_part[Len(hash_part)] = "\n"
             THEN SubSeq(hash_part, 1, Len(hash_part) - 1)
             ELSE hash_part
  IN  /\ Len(h) >= MinHashLen
      /\ Len(h) <= MaxHashLen
      /\ \A i \in 1..Len(h) : h[i] \in HashChars

\* mutant: the lower bound on the length of the hash part is not checked
_validate_token_format_AnyShortHash(token) ==
  /\ Len(token) >= MinTokenLen
  /\ Cardinality(Colons(token)) = 1
  /\ LET c == CHOOSE i \in Colons(token) : TRUE
         hash_part == SubSeq(token, c + 1, Len(token))
     IN  /\ BotIdOk(SubSeq(token, 1, c - 1))
         /\ Len(hash_part) <= MaxHashLen
         /\ \A i \in 1..Len(hash_part) : hash_part[i] \in HashChars
  /\ ~\E ch \in SuspiciousChars, s \in 1..(Len(token) - SuspiciousRun + 1) :
        \A k \in 0..(SuspiciousRun - 1) : token[s + k] = ch

\* security_manager.py:258-292
_validate_token_format(token) ==
  /\ Len(token) >= MinTokenLen
  /\ Cardinality(Colons(token)) = 1
  /\ LET c == CHOOSE i \in Colons(token) : TRUE
         hash_part == SubSeq(token, c + 1, Len(token))
     IN  /\ BotIdOk(SubSeq(token, 1, c - 1))
         /\ Len(hash_part) >= MinHashLen
         /\ Len(hash_part) <= MaxHashLen
         /\ HashMatches(hash_part)
  /\ ~\E ch \in SuspiciousChars, s \in 1..(Len(token) - SuspiciousRun + 1) :
        \A k \in 0..(SuspiciousRun - 1) : token[s + k] = ch

\* the tokens of the pool the validator accepts
AcceptedTokens == {t \in TokenPool : _validate_token_format(t)}

\* ------------------------------------------------------------------------
\* Part III: the envelope (security_manager.py:106-160)
\* ------------------------------------------------------------------------
\* the budgets the callers pass and the default window
\* (security_manager.py:109, 133, 297, 84)
encrypt_max_attempts == 10
decrypt_max_attempts == 20
verify_max_attempts == 3
window_seconds_default == 300
\* security_manager.py:78, 118
iterations == 600000

\* security_manager.py:64-82: the Fernet key is derived from the master key
\* and the salt of the instance
cipher_suite == [password |-> master_key, salt |-> _salt]

Fields == {"token", "encrypted_at", "salt", "algorithm", "iterations", "version"}

\* security_manager.py:113-120
metadata_of(token) ==
  [token |-> token, encrypted_at |-> now, salt |-> _salt,
   algorithm |-> "PBKDF2-HMAC-SHA256", iterations |-> iterations,
   version |-> "2.0"]

\* length of what json.dumps makes of one field (name, ': ' and value), with
\* a ten-digit encrypted_at and the 44 characters of the encoded salt
FieldLen(f, metadata) ==
  CASE f = "token" -> 11 + Len(metadata[f])
    [] f = "encrypted_at" -> 26
    [] f = "salt" -> 54
    [] f = "algorithm" -> 33
    [] f = "iterations" -> 20
    [] f = "version" -> 16

RECURSIVE SumLen(_, _)
SumLen(D, metadata) ==
  IF D = {} THEN 0
  ELSE LET f == CHOOSE x \in D : TRUE
       IN  FieldLen(f, metadata) + SumLen(D \ {f}, metadata)

\* security_manager.py:122: number of bytes of json.dumps(metadata).encode()
DataLen(metadata) ==
  2 + SumLen(DOMAIN metadata, metadata) + 2 * (Cardinality(DOMAIN metadata) - 1)

\* security_manager.py:123: Fernet.encrypt. The bytes: version, time, iv,
\* the data padded to a multiple of 16, and the HMAC under the key; they are
\* genuine as long as no byte of them was changed
FernetBytes(key, metadata) ==
  [key |-> key, data |-> metadata, genuine |-> TRUE,
   n |-> 57 + 16 * ((DataLen(metadata) \div 16) + 1)]

\* base64.urlsafe_b64encode (security_manager.py:124, and inside Fernet):
\* the text of n bytes has 4 characters for every 3 bytes; when n is not a
\* multiple of 3 its last character has bits that carry no data, which the
\* encoder sets to 0
urlsafe_b64encode(content) ==
  [of |-> content, n |-> 4 * ((content.n + 2) \div 3), spare |-> 0,
   wellformed |-> TRUE]

\* the text has bits that carry no data
HasSpare(text) == text.of.n % 3 # 0

\* security_manager.py:122-124: the envelope encrypt_token returns
Envelope(key, metadata) ==
  urlsafe_b64encode(urlsafe_b64encode(FernetBytes(key, metadata)))

\* the texts that differ from a text in one character, by what the change
\* does: the text is no base64 any more; a character that carries no data
\* but in its spare bits has these changed; a character that carries data
\* changes a byte of the content
OneCharChanged(text, contents) ==
  {[text EXCEPT !.wellformed = FALSE]}
    \cup (IF HasSpare(text) THEN {[text EXCEPT !.spare = 1]} ELSE {})
    \cup {[text EXCEPT !.of = c] : c \in contents}

\* the envelopes that differ from an envelope in one byte
Tamperings(blob) ==
  OneCharChanged(blob,
    OneCharChanged(blob.of, {[blob.of.of EXCEPT !.genuine = FALSE]}))

\* how a call ends: with the value it returns ...
Returned(op, value) ==
  [op |-> op, arg |-> <<>>, raised |-> FALSE, message |-> "", cause |-> "",
   value |-> value, performed |-> TRUE]

\* ... or with the SecurityError its `except Exception` handler raises
\* whatever was raised inside (security_manager.py:126-128, 158-160,
\* 187-189, 208-210)
HandlerMessage(op) ==
  CASE op = "encrypt_token" -> "Encryption operation failed"
    [] op = "decrypt_token" -> "Decryption operation failed"
    [] op = "save_encrypted_token" -> "Token save operation failed"
    [] op = "load_encrypted_token" -> "Token load operation failed"

\* mutant: the handler lets a SecurityError raised inside pass
Raised_Passing(op, cause, performed) ==
  [op |-> op, arg |-> <<>>, raised |-> TRUE,
   message |-> IF cause \in {"Rate limit exceeded", "Invalid token metadata",
                             "Invalid token format", "Token file not found",
                             "Empty token file"}
                 THEN cause ELSE HandlerMessage(op),
   cause |-> cause, value |-> <<>>, performed |-> performed]

Raised(op, cause, performed) ==
  [op |-> op, arg |-> <<>>, raised |-> TRUE, message |-> HandlerMessage(op),
   cause |-> cause, value |-> <<>>, performed |-> performed]

\* ------------------------------------------------------------------------
\* Part III: encrypt_token, decrypt_token, verify_bot_connection
\* ------------------------------------------------------------------------
\* mutant: the token loses its last character on the way into the metadata
EncryptOutcome_Stripped(token) ==
  IF ~Allowed("encrypt_token", encrypt_max_attempts, window_seconds_default)
    THEN Raised("encrypt_token", "Rate limit exceeded", FALSE)
    ELSE Returned("encrypt_token",
           Envelope(cipher_suite,
                    metadata_of(SubSeq(token, 1, Len(token) - 1))))

\* security_manager.py:106-128: how encrypt_token(token) ends
EncryptOutcome(token) ==
  IF ~Allowed("encrypt_token", encrypt_max_attempts, window_seconds_default)
    THEN Raised("encrypt_token", "Rate limit exceeded", FALSE)
    ELSE Returned("encrypt_token", Envelope(cipher_suite, metadata_of(token)))

\* mutant: only the token is required
required_fields_TokenOnly == {"token"}

\* security_manager.py:141
required_fields == {"token", "encrypted_at", "salt"}

\* security_manager.py:130-160: how decrypt_token(encrypted_token) ends:
\* the gate, the decoding of the text, Fernet.decrypt (which decodes its
\* token and checks the HMAC under the key of the instance), the required
\* fields. The warnings about age and algorithm go to the log only.
DecryptOutcome(encrypted_token) ==
  IF ~Allowed("decrypt_token", decrypt_max_attempts, window_seconds_default)
    THEN Raised("decrypt_token", "Rate limit exceeded", FALSE)
  ELSE IF ~encrypted_token.wellformed
    THEN Raised("decrypt_token", "binascii.Error", FALSE)
  ELSE IF \/ ~encrypted_token.of.wellformed
          \/ ~encrypted_token.of.of.genuine
          \/ encrypted_token.of.of.key # cipher_suite
    THEN Raised("decrypt_token", "InvalidToken", TRUE)
  ELSE LET metadata == encrypted_token.of.of.data
       IN  IF \E field \in required_fields : field \notin DOMAIN metadata
             THEN Raised("decrypt_token", "Invalid token metadata", TRUE)
             ELSE Returned("decrypt_token", metadata["token"])

\* security_manager.py:294-322: how verify_bot_connection ends when get_me
\* gives a bot, a user account or an error: every exception, the
\* SecurityError of the gate included, makes it return False
VerifyOutcome(me) ==
  IF ~Allowed("verify_bot", verify_max_attempts, window_seconds_default)
    THEN [op |-> "verify_bot", arg |-> <<>>, raised |-> FALSE, message |-> "",
          cause |-> "Rate limit exceeded", value |-> FALSE,
          performed |-> FALSE]
    ELSE [op |-> "verify_bot", arg |-> <<>>, raised |-> FALSE, message |-> "",
          cause |-> IF me = "error" THEN "get_me" ELSE "",
          value |-> (me = "bot"), performed |-> TRUE]

\* security_manager.py:106-128
encrypt_token(token) ==
  /\ save_pc = "idle"
  /\ vault_calls < MaxVaultCalls
  /\ _check_rate_limit("encrypt_token", encrypt_max_attempts,
                       window_seconds_default)
  /\ vres' = [EncryptOutcome(token) EXCEPT !.arg = token]
  /\ issued' = IF EncryptOutcome(token).raised THEN issued
               ELSE issued \cup {[token |-> token,
                                  blob |-> EncryptOutcome(token).value]}
  /\ vault_calls' = vault_calls + 1
  /\ UNCHANGED <<master_key, _salt, rate_calls, fvars, now, schedButNow, dvars, ovars>>

\* security_manager.py:130-160
decrypt_token(encrypted_token) ==
  /\ save_pc = "idle"
  /\ vault_calls < MaxVaultCalls
  /\ _check_rate_limit("decrypt_token", decrypt_max_attempts,
                       window_seconds_default)
  /\ vres' = [DecryptOutcome(encrypted_token) EXCEPT !.arg = encrypted_token]
  /\ vault_calls' = vault_calls + 1
  /\ UNCHANGED <<master_key, _salt, issued, rate_calls, fvars, now,
                 schedButNow, dvars, ovars>>

\* security_manager.py:294-322, with the answer of bot.get_me()
verify_bot_connection(me) ==
  /\ save_pc = "idle"
  /\ vault_calls < MaxVaultCalls
  /\ _check_rate_limit("verify_bot", verify_max_attempts,
                       window_seconds_default)
  /\ vres' = VerifyOutcome(me)
  /\ vault_calls' = vault_calls + 1
  /\ UNCHANGED <<master_key, _salt, issued, rate_calls, fvars, now,
                 schedButNow, dvars, ovars>>

Restrict(f, D) == [x \in D |-> f[x]]

\* the metadata an envelope under the key of the instance may hold: all
\* the fields, all but one, or the required ones only
PayloadShapes == {Fields} \cup {Fields \ {f} : f \in Fields} \cup {required_fields}

\* what decrypt_token is called with: the envelopes encrypt_token returned,
\* these with one byte changed, and envelopes under the key of the instance
\* with metadata of every shape
DecryptInputs ==
  {e.blob : e \in issued}
    \cup UNION {Tamperings(e.blob) : e \in issued}
    \cup {Envelope(cipher_suite, Restrict(metadata_of(ExampleToken), D)) :
            D \in PayloadShapes}

\* the budget of an operation
BudgetOf(o) ==
  CASE o = "encrypt_token" -> encrypt_max_attempts
    [] o = "decrypt_token" -> decrypt_max_attempts
    [] o = "verify_bot" -> verify_max_attempts

\* ------------------------------------------------------------------------
\* Part III: save_encrypted_token, load_encrypted_token
\* ------------------------------------------------------------------------
\* a file: the text written, how much of it has arrived ("none", "some",
\* "all"), and its permissions ("umask": what open() gives a new file,
\* or "0600")
FileOf(blob, part, mode) == [blob |-> blob, part |-> part, mode |-> mode]

\* what f.read() gives for a file that has something in it: the envelope, or
\* the beginning of one, which is no base64 text of a Fernet token
TextOf(file) ==
  IF file.part = "all" THEN file.blob
  ELSE [file.blob EXCEPT !.wellformed = FALSE]

\* security_manager.py:162-171: save_encrypted_token is called: the format
\* check, encrypt_token (with its gate) and the mkdir of a directory that
\* exists. The variables of Part IV and later are left to the caller.
SaveCall(token) ==
  /\ save_pc = "idle"
  /\ vault_calls < MaxVaultCalls
  /\ vault_calls' = vault_calls + 1
  /\ IF ~_validate_token_format(token)
       THEN /\ vres' = [Raised("save_encrypted_token", "Invalid token format",
                               FALSE) EXCEPT !.arg = token]
            /\ UNCHANGED <<_rate_limiter, issued, save_pc, encrypted>>
       ELSE /\ _check_rate_limit("encrypt_token", encrypt_max_attempts,
                                 window_seconds_default)
            /\ IF EncryptOutcome(token).raised
                 THEN /\ vres' = [Raised("save_encrypted_token",
                                         "Rate limit exceeded", FALSE)
                                    EXCEPT !.arg = token]
                      /\ UNCHANGED <<issued, save_pc, encrypted>>
                 ELSE /\ vres' = [NoResult EXCEPT !.op = "save_encrypted_token",
                                                  !.arg = token]
                      /\ issued' = issued \cup
                           {[token |-> token, blob |-> EncryptOutcome(token).value]}
                      /\ encrypted' = EncryptOutcome(token).value
                      /\ save_pc' = "open"
  /\ UNCHANGED <<master_key, _salt, rate_calls, fs, now, schedButNow, dvars>>

\* save_encrypted_token called from outside the class, as
\* SecureConfigManager.set_token does (security_manager.py:415)
save_encrypted_token(token) == SaveCall(token) /\ UNCHANGED ovars

\* mutant: the file is written in place
SaveOpen_InPlace ==
  /\ save_pc = "open"
  /\ fs' = [fs EXCEPT ![filepath] = FileOf(encrypted, "none", "umask"),
                      ![temp_filepath] = FileOf(encrypted, "none", "umask")]
  /\ save_pc' = "write"
  /\ UNCHANGED <<encrypted, rvars, kvars, now, schedButNow, dvars, ovars>>

\* security_manager.py:174-175: open(temp_filepath, 'w') makes the file, or
\* empties the one that is there and keeps its permissions
SaveOpen ==
  /\ save_pc = "open"
  /\ fs' = [fs EXCEPT ![temp_filepath] =
              FileOf(encrypted, "none",
                     IF fs[temp_filepath] = NoFile THEN "umask"
                     ELSE fs[temp_filepath].mode)]
  /\ save_pc' = "write"
  /\ UNCHANGED <<encrypted, rvars, kvars, now, schedButNow, dvars, ovars>>

\* security_manager.py:176: the first part of the text arrives in the file
SaveWrite ==
  /\ save_pc = "write"
  /\ fs' = [fs EXCEPT ![temp_filepath].part = "some"]
  /\ save_pc' = "flush"
  /\ UNCHANGED <<encrypted, rvars, kvars, now, schedButNow, dvars, ovars>>

\* security_manager.py:175-176: the rest arrives and the file is closed
SaveClose ==
  /\ save_pc = "flush"
  /\ fs' = [fs EXCEPT ![temp_filepath].part = "all"]
  /\ save_pc' = "rename"
  /\ UNCHANGED <<encrypted, rvars, kvars, now, schedButNow, dvars, ovars>>

\* security_manager.py:179: os.rename(temp_filepath, filepath)
SaveRename ==
  /\ save_pc = "rename"
  /\ fs' = [fs EXCEPT ![filepath] = fs[temp_filepath],
                      ![temp_filepath] = NoFile]
  /\ save_pc' = "chmod"
  /\ UNCHANGED <<encrypted, rvars, kvars, now, schedButNow, dvars, ovars>>

\* security_manager.py:182-185: os.chmod(filepath, 0o600), and the call
\* returns
SaveChmod ==
  /\ save_pc = "chmod"
  /\ fs' = [fs EXCEPT ![filepath].mode = "0600"]
  /\ save_pc' = "idle"
  /\ vres' = [Returned("save_encrypted_token", <<>>) EXCEPT !.arg = vres.arg]
  /\ UNCHANGED <<encrypted, rvars, master_key, _salt, issued, vault_calls,
                 now, schedButNow, dvars, ovars>>

\* security_manager.py:187-189: the step the call is at (open, write, close,
\* rename or chmod) raises an OSError, and the call ends with the
\* SecurityError of the handler
SaveFail ==
  /\ save_pc \in {"open", "write", "flush", "rename", "chmod"}
  /\ save_pc' = "idle"
  /\ vres' = [Raised("save_encrypted_token", "OSError", TRUE)
                EXCEPT !.arg = vres.arg]
  /\ UNCHANGED <<fs, encrypted, rvars, master_key, _salt, issued,
                 vault_calls, now, schedButNow, dvars, ovars>>

\* the process stops inside save_encrypted_token
SaveStop ==
  /\ save_pc \in {"open", "write", "flush", "rename", "chmod"}
  /\ save_pc' = "stopped"
  /\ UNCHANGED <<fs, encrypted, rvars, kvars, now, schedButNow, dvars, ovars>>

\* security_manager.py:191-210: how load_encrypted_token(filepath) ends. The
\* SecurityErrors raised for a missing and for an empty file are caught by
\* `except Exception`; `except FileNotFoundError` needs the file to go
\* between os.path.exists and open, which nothing in the process does
LoadOutcome ==
  IF fs[filepath] = NoFile
    THEN Raised("load_encrypted_token", "Token file not found", FALSE)
  ELSE IF fs[filepath].part = "none"
    THEN Raised("load_encrypted_token", "Empty token file", FALSE)
  ELSE LET d == DecryptOutcome(TextOf(fs[filepath]))
       IN  IF d.raised
             THEN Raised("load_encrypted_token", d.cause, d.performed)
             ELSE Returned("load_encrypted_token", d.value)

\* security_manager.py:191-210
load_encrypted_token ==
  /\ save_pc = "idle"
  /\ vault_calls < MaxVaultCalls
  /\ vault_calls' = vault_calls + 1
  /\ IF fs[filepath] = NoFile \/ fs[filepath].part = "none"
       THEN UNCHANGED _rate_limiter
       ELSE _check_rate_limit("decrypt_token", decrypt_max_attempts,
                              window_seconds_default)
  /\ vres' = [LoadOutcome EXCEPT !.arg = fs[filepath]]
  /\ UNCHANGED <<master_key, _salt, issued, rate_calls, fvars, now,
                 schedButNow, dvars, ovars>>

\* the file an earlier save of this instance left at the path
PreviousFile ==
  FileOf(Envelope(cipher_suite, metadata_of(LongToken)), "all", "0600")

\* A SecurityManager, new or in use: no attempt is on record, or for every
\* operation one less than its budget, all made in this second; at the path
\* of the token file there is nothing, an empty file or the file of an
\* earlier save.
VaultInit ==
  /\ OQuiet
  /\ SQuiet
  /\ DQuiet
  /\ KNew
  /\ save_pc = "idle"
  /\ encrypted = <<>>
  /\ \E f \in {NoFile, [PreviousFile EXCEPT !.part = "none"], PreviousFile} :
       fs = [p \in Paths |-> IF p = filepath THEN f ELSE NoFile]
  /\ rate_calls = <<>>
  /\ \E used \in {{}, Operations} :
       _rate_limiter = [o \in Operations |->
                          IF o \in used THEN Rep(now, BudgetOf(o) - 1) ELSE <<>>]

VaultNext ==
  \/ \E token \in TokenPool : encrypt_token(token)
  \/ \E encrypted_token \in DecryptInputs : decrypt_token(encrypted_token)
  \/ \E me \in {"bot", "user", "error"} : verify_bot_connection(me)
  \/ \E token \in TokenPool : save_encrypted_token(token)
  \/ SaveOpen
  \/ SaveWrite
  \/ SaveClose
  \/ SaveRename
  \/ SaveChmod
  \/ SaveFail
  \/ SaveStop
  \/ load_encrypted_token

SpecVault == VaultInit /\ [][VaultNext]_vars

\* ------------------------------------------------------------------------
\* Part III: _validate_token_format on its own
\* ------------------------------------------------------------------------
\* the parts the tokens given to the validator are made of: what stands
\* before the first ':', the separator (none, one ':', or an empty part
\* between two), and what stands after it ("eacute" is the letter e with an
\* acute accent)
IdParts ==
  {<<"1", "2", "3", "4", "5", "6", "7", "8", "9">>,
   <<"1">>,
   <<"0">>,
   <<>>,
   <<"a", "b", "c">>,
   <<"1", "2", "3", "4", "5", "6", "7", "8", "9", "0">>,
   <<"1", "2", "3", "4", "5", "6", "7", "8", "9", "0", "1">>,
   Rep("1", 10),
   <<"+", "1", "2", "3", "4", "5", "6", "7", "8">>,
   <<"-", "1", "2", "3", "4", "5", "6", "7", "8">>,
   <<" ", "1", "2", "3", "4", "5", "6", "7", "8">>,
   <<"1", "2", "_", "3", "4", "5", "_", "6", "7", "8">>}

Separators == {<<>>, <<":">>, <<":", ":">>}

HashParts ==
  {<<"x", "y", "z">>,
   Rep("A", 34),
   Rep("A", 35),
   Rep("A", 43),
   Rep("A", 50),
   Rep("A", 51),
   Rep("a", 35),
   Rep("A", 34) \o <<"\n">>,
   Rep("A", 35) \o <<"\n">>,
   Rep("A", 34) \o <<"!">>,
   Rep("A", 34) \o <<"eacute">>,
   Rep("A", 33) \o <<"_", "-">>}

FormatTokens ==
  {i \o p \o h : i \in IdParts, p \in Separators, h \in HashParts}

\* a call of _validate_token_format(token) (security_manager.py:258-292)
validate_token_format(token) ==
  /\ save_pc = "idle"
  /\ vault_calls < MaxVaultCalls
  /\ vres' = [Returned("_validate_token_format", _validate_token_format(token))
                EXCEPT !.arg = token]
  /\ vault_calls' = vault_calls + 1
  /\ UNCHANGED <<master_key, _salt, issued, rvars, fvars, now, schedButNow,
                 dvars, ovars>>

FormatInit == OQuiet /\ SQuiet /\ DQuiet /\ VQuiet

FormatNext == \E token \in FormatTokens : validate_token_format(token)

SpecFormat == FormatInit /\ [][FormatNext]_vars

\* ------------------------------------------------------------------------
\* Part IV: SecureConfigManager.migrate_plaintext_token
\* ------------------------------------------------------------------------
\* number of calls of migrate_plaintext_token in a run
MaxMigrations == 2

\* the permissions bot_token.txt may have: the owner's only, or those a
\* file gets from the umask of the process that made it
PlainModes == {"0600", "umask"}

\* what bot_token.txt may hold: a token the validator accepts, the same
\* with the newline an editor leaves, one it rejects, nothing
PlainTexts == {ExampleToken, ExampleToken \o <<"\n">>, BadToken, <<>>}

\* security_manager.py:368-374: the call and its condition
MigrateCall ==
  /\ migrate_pc = "idle"
  /\ save_pc = "idle"
  /\ mres.calls < MaxMigrations
  /\ IF fs[plaintext_file] # NoFile /\ fs[filepath] = NoFile
       THEN /\ migrate_pc' = "read"
            /\ mres' = [calls |-> mres.calls + 1, ended |-> "none",
                        backup |-> FALSE]
       ELSE /\ migrate_pc' = "idle"
            /\ mres' = [calls |-> mres.calls + 1, ended |-> "nothing",
                        backup |-> FALSE]
  /\ UNCHANGED <<migrate_token, rvars, kvars, fvars, nonMigrate>>

\* mutant: the backup is made before the token is looked at
MigrateRead_BackupFirst ==
  /\ migrate_pc = "read"
  /\ migrate_token' = strip(fs[plaintext_file].blob)
  /\ fs' = [fs EXCEPT ![backup_file] = fs[plaintext_file]]
  /\ IF migrate_token' # <<>> /\ _validate_token_format(migrate_token')
       THEN migrate_pc' = "save" /\ mres' = [mres EXCEPT !.backup = TRUE]
       ELSE migrate_pc' = "idle" /\ mres' = [mres EXCEPT !.ended = "aborted"]
  /\ UNCHANGED <<save_pc, encrypted, rvars, kvars, nonMigrate>>

\* security_manager.py:376-379: the file is read and the token checked; a
\* token that is empty or fails the check ends the call, which returns
MigrateRead ==
  /\ migrate_pc = "read"
  /\ migrate_token' = strip(fs[plaintext_file].blob)
  /\ IF migrate_token' # <<>> /\ _validate_token_format(migrate_token')
       THEN migrate_pc' = "copy" /\ UNCHANGED mres
       ELSE migrate_pc' = "idle" /\ mres' = [mres EXCEPT !.ended = "aborted"]
  /\ UNCHANGED <<rvars, kvars, fvars, nonMigrate>>

\* security_manager.py:382, shutil.copy2, first half (copyfile): the backup
\* is made, or the one that is there overwritten, with the contents of the
\* plaintext file
MigrateCopy ==
  /\ migrate_pc = "copy"
  /\ fs' = [fs EXCEPT ![backup_file] =
              FileOf(fs[plaintext_file].blob, "all",
                     IF fs[backup_file] = NoFile THEN "umask"
                     ELSE fs[backup_file].mode)]
  /\ migrate_pc' = "copystat"
  /\ mres' = [mres EXCEPT !.backup = TRUE]
  /\ UNCHANGED <<migrate_token, save_pc, encrypted, rvars, kvars, nonMigrate>>

\* security_manager.py:382, shutil.copy2, second half (copystat): the backup
\* gets the permissions of the plaintext file
MigrateCopystat ==
  /\ migrate_pc = "copystat"
  /\ fs' = [fs EXCEPT ![backup_file].mode = fs[plaintext_file].mode]
  /\ migrate_pc' = "save"
  /\ UNCHANGED <<migrate_token, mres, save_pc, encrypted, rvars, kvars,
                 nonMigrate>>

\* security_manager.py:385: save_encrypted_token(token, ...) is called
MigrateSave ==
  /\ migrate_pc = "save"
  /\ SaveCall(migrate_token)
  /\ migrate_pc' = "saving"
  /\ UNCHANGED <<migrate_token, mres, tvars, cvars>>

\* mutant: the plaintext file is deleted whether or not the save raised
MigrateSaved_Careless ==
  /\ migrate_pc = "saving"
  /\ save_pc = "idle"
  /\ migrate_pc' = "unlink"
  /\ UNCHANGED <<mres, migrate_token, rvars, kvars, fvars, nonMigrate>>

\* security_manager.py:385, 396-398: save_encrypted_token has returned, or
\* has raised, and then the handler raises "Token migration failed"
MigrateSaved ==
  /\ migrate_pc = "saving"
  /\ save_pc = "idle"
  /\ IF vres.raised
       THEN migrate_pc' = "idle" /\ mres' = [mres EXCEPT !.ended = "raised"]
       ELSE migrate_pc' = "unlink" /\ UNCHANGED mres
  /\ UNCHANGED <<migrate_token, rvars, kvars, fvars, nonMigrate>>

\* security_manager.py:388: plaintext_file.unlink()
MigrateUnlink ==
  /\ migrate_pc = "unlink"
  /\ fs' = [fs EXCEPT ![plaintext_file] = NoFile]
  /\ migrate_pc' = "chmod"
  /\ UNCHANGED <<migrate_token, mres, save_pc, encrypted, rvars, kvars,
                 nonMigrate>>

\* security_manager.py:391-394: os.chmod(backup_file, 0o600), and the call
\* returns
MigrateChmod ==
  /\ migrate_pc = "chmod"
  /\ fs' = [fs EXCEPT ![backup_file].mode = "0600"]
  /\ migrate_pc' = "idle"
  /\ mres' = [mres EXCEPT !.ended = "migrated"]
  /\ UNCHANGED <<migrate_token, save_pc, encrypted, rvars, kvars, nonMigrate>>

\* security_manager.py:396-398: the step the call is at (open and read, the
\* two halves of copy2, unlink or chmod) raises an OSError, and the call ends
\* with the SecurityError of the handler
MigrateFail ==
  /\ migrate_pc \in {"read", "copy", "copystat", "unlink", "chmod"}
  /\ migrate_pc' = "idle"
  /\ mres' = [mres EXCEPT !.ended = "raised"]
  /\ UNCHANGED <<migrate_token, rvars, kvars, fvars, nonMigrate>>

\* The configuration directory as migrate_plaintext_token may find it: with
\* or without bot_token.txt, with or without the bot_token.enc of an earlier
\* save; the SecurityManager new or in use as in VaultInit.
MigrateInit ==
  /\ SQuiet
  /\ DQuiet
  /\ KNew
  /\ MQuiet
  /\ TQuiet
  /\ CQuiet
  /\ save_pc = "idle"
  /\ encrypted = <<>>
  /\ \E plain \in {NoFile} \cup
                  {FileOf(t, "all", m) : t \in PlainTexts, m \in PlainModes},
        enc \in {NoFile, PreviousFile} :
       fs = [p \in Paths |-> IF p = plaintext_file THEN plain
                             ELSE IF p = filepath THEN enc ELSE NoFile]
  /\ rate_calls = <<>>
  /\ \E used \in {{}, Operations} :
       _rate_limiter = [o \in Operations |->
                          IF o \in used THEN Rep(now, BudgetOf(o) - 1) ELSE <<>>]

MigrateNext ==
  \/ MigrateCall
  \/ MigrateRead
  \/ MigrateCopy
  \/ MigrateCopystat
  \/ MigrateSave
  \/ MigrateSaved
  \/ MigrateUnlink
  \/ MigrateChmod
  \/ MigrateFail
  \/ SaveOpen
  \/ SaveWrite
  \/ SaveClose
  \/ SaveRename
  \/ SaveChmod
  \/ SaveFail

SpecMigrate == MigrateInit /\ [][MigrateNext]_vars

\* ------------------------------------------------------------------------
\* Part V: ResilientTimeHandler.sync_time, step by step
\* ------------------------------------------------------------------------
\* number of calls of sync_time in a run and number of 20 s steps of the
\* clock between two steps of half a sync interval
MaxSyncs == 2
MaxShortTicks == 1

\* time_handler.py:82: get_ntp_time goes through self.ntp_servers[:8], the
\* first 8 of the 12 servers of its list
MaxServers == 8

\* time_handler.py:46, 60
ntp_max_retries == 2
NetworkCacheSeconds == 30

\* the short step of the clock, seconds
ShortTick == 20

\* the dates of a run: two days of every month
TimeDates == {<<m, d>> : m \in 1..12, d \in {24, 25}}

\* what the servers may be off the local clock by, seconds
ServerOffsets == {7, -3}

\* mutant: corrected time without the correction
get_current_time_Uncorrected == now

\* time_handler.py:172-186, as seconds on the scale of the clock
get_current_time ==
  IF last_sync = <<>> THEN now ELSE now + offset

\* sync_time returns: the entry of the log; asked says whether
\* get_ntp_time got past the network check
SyncEnds(ntp_time, asked) ==
  /\ sync_log' = Append(sync_log, [local |-> now, ntp_time |-> ntp_time,
                                   asked |-> asked,
                                   returned |-> SyncResult(ntp_time) = "ok"])
  /\ sync_pc' = "idle"
  /\ server' = 0
  /\ attempt_no' = 0

\* time_handler.py:55-73, _check_network_connectivity. Within 30 s of the
\* last check the cached answer is used; otherwise lookup is how
\* socket.gethostbyname ends: "ok", "failed" (socket.gaierror or
\* socket.timeout, which set the cache) or "error" (anything else, which
\* goes up to the handler of sync_time)
CheckNetwork(lookup) ==
  IF now - last_network_check < NetworkCacheSeconds
    THEN lookup = "ok" /\ UNCHANGED <<last_network_check, network_available>>
  ELSE IF lookup = "error"
    THEN UNCHANGED <<last_network_check, network_available>>
  ELSE network_available' = (lookup = "ok") /\ last_network_check' = now

\* whether get_ntp_time goes on to ask the servers (time_handler.py:77-79)
Connected(lookup) ==
  IF now - last_network_check < NetworkCacheSeconds
    THEN network_available
    ELSE lookup = "ok"

\* time_handler.py:118-123, 75-82: sync_time is called and get_ntp_time
\* checks the network; without network it returns None and sync_time False
SyncCall(lookup) ==
  /\ sync_pc = "idle"
  /\ Len(sync_log) < MaxSyncs
  /\ CheckNetwork(lookup)
  /\ IF Connected(lookup)
       THEN /\ sync_pc' = "request"
            /\ UNCHANGED <<server, attempt_no, sync_log, last_sync, offset>>
       ELSE SyncEnds(<<>>, FALSE) /\ sync_time(<<>>)
  /\ UNCHANGED <<now, date, nonTime>>

\* time_handler.py:118-150: a whole call of sync_time in one step, from the
\* network check to the return; ntp_time is what get_ntp_time returns
SyncWhole(lookup, ntp_time) ==
  /\ sync_pc = "idle"
  /\ Len(sync_log) < MaxSyncs
  /\ CheckNetwork(lookup)
  /\ ~Connected(lookup) => ntp_time = <<>>
  /\ SyncEnds(ntp_time, Connected(lookup))
  /\ sync_time(ntp_time)
  /\ UNCHANGED <<now, date, nonTime>>

\* mutant: a server is asked once more than max_retries times
NextAttempt_OneMore(skip_server) ==
  IF ~skip_server /\ attempt_no <= ntp_max_retries - 1
    THEN /\ attempt_no' = attempt_no + 1
         /\ sync_pc' = "request"
         /\ UNCHANGED <<server, sync_log, last_sync, offset>>
  ELSE IF server < MaxServers - 1
    THEN /\ server' = server + 1
         /\ attempt_no' = 0
         /\ sync_pc' = "request"
         /\ UNCHANGED <<sync_log, last_sync, offset>>
  ELSE SyncEnds(<<>>, TRUE) /\ sync_time(<<>>)

\* time_handler.py:82-83, 116: the loops go on with the next attempt, or
\* with the next server; after the last server get_ntp_time returns None and
\* sync_time False
NextAttempt(skip_server) ==
  IF ~skip_server /\ attempt_no < ntp_max_retries - 1
    THEN /\ attempt_no' = attempt_no + 1
         /\ sync_pc' = "request"
         /\ UNCHANGED <<server, sync_log, last_sync, offset>>
  ELSE IF server < MaxServers - 1
    THEN /\ server' = server + 1
         /\ attempt_no' = 0
         /\ sync_pc' = "request"
         /\ UNCHANGED <<sync_log, last_sync, offset>>
  ELSE SyncEnds(<<>>, TRUE) /\ sync_time(<<>>)

\* `abs(resp.offset) > 3600` (time_handler.py:99)
SuspiciousLimit == 3600

\* the offsets the servers may answer with: those of ServerOffsets and two
\* of more than an hour
AnswerOffsets == ServerOffsets \cup {SuspiciousLimit + 1, 0 - SuspiciousLimit - 1}

\* mutant: only an offset of more than two hours is suspicious
IsSuspicious_TwoHours(d) == d > 2 * SuspiciousLimit \/ 0 - d > 2 * SuspiciousLimit

\* time_handler.py:99: abs(resp.offset) > 3600
IsSuspicious(d) == d > SuspiciousLimit \/ 0 - d > SuspiciousLimit

\* time_handler.py:93-104, 124-146: the server answers, d seconds off the
\* local clock. With an offset of more than an hour: `continue`. Otherwise
\* get_ntp_time returns resp.tx_time and sync_time sets offset and last_sync
\* and returns True
SyncResponse(d) ==
  /\ sync_pc = "request"
  /\ IF IsSuspicious(d)
       THEN NextAttempt(FALSE)
       ELSE SyncEnds(<<now + d>>, TRUE) /\ sync_time(<<now + d>>)
  /\ UNCHANGED <<last_network_check, network_available, now, date, nonTime>>

\* time_handler.py:99-101: the answer has no offset (resp.offset is None):
\* `continue`
SyncSuspicious ==
  /\ sync_pc = "request"
  /\ NextAttempt(FALSE)
  /\ UNCHANGED <<last_network_check, network_available, now, date, nonTime>>

\* time_handler.py:106-110: socket.timeout, socket.gaierror or NTPException:
\* before the second attempt the coroutine sleeps
SyncTimeout ==
  /\ sync_pc = "request"
  /\ IF attempt_no < ntp_max_retries - 1
       THEN /\ sync_pc' = "sleep"
            /\ UNCHANGED <<server, attempt_no, sync_log, last_sync, offset>>
       ELSE NextAttempt(FALSE)
  /\ UNCHANGED <<last_network_check, network_available, now, date, nonTime>>

\* time_handler.py:110: the sleep is over
SyncSleepDone ==
  /\ sync_pc = "sleep"
  /\ NextAttempt(FALSE)
  /\ UNCHANGED <<last_network_check, network_available, now, date, nonTime>>

\* time_handler.py:111-113: any other exception: `break`
SyncUnexpected ==
  /\ sync_pc = "request"
  /\ NextAttempt(TRUE)
  /\ UNCHANGED <<last_network_check, network_available, now, date, nonTime>>

\* the clock advances by 20 s
TickShort ==
  /\ now % (sync_interval \div 2) < MaxShortTicks * ShortTick
  /\ now' = now + ShortTick
  /\ UNCHANGED <<date, last_sync, offset, tvars, nonTime>>

\* A new ResilientTimeHandler.
TimeInit ==
  /\ SQuiet
  /\ DQuiet
  /\ VQuiet
  /\ OQuiet

TimeNext ==
  \/ \E lookup \in {"ok", "failed", "error"} : SyncCall(lookup)
  \/ \E d \in AnswerOffsets : SyncResponse(d)
  \/ SyncSuspicious
  \/ SyncTimeout
  \/ SyncSleepDone
  \/ SyncUnexpected
  \/ Tick
  \/ TickShort

SpecTime == TimeInit /\ [][TimeNext]_vars

\* A new ResilientTimeHandler on one of the dates, and its calls of
\* sync_time as single steps.
DstInit ==
  /\ date \in TimeDates
  /\ SNoRun
  /\ left_running = {}
  /\ DQuiet
  /\ VQuiet
  /\ OQuiet

DstNext ==
  \/ \E lookup \in {"ok", "failed", "error"} :
       \E ntp_time \in {<<>>} \cup {<<now + d>> : d \in ServerOffsets} :
         SyncWhole(lookup, ntp_time)
  \/ Tick
  \/ TickShort

SpecDst == DstInit /\ [][DstNext]_vars

\* ------------------------------------------------------------------------
\* Part VI: texts of numbers (int, str, str.isdigit)
\* ------------------------------------------------------------------------
Digits == <<"0", "1", "2", "3", "4", "5", "6", "7", "8", "9">>

\* str.isdigit: every character is a digit, and there is at least one;
\* "sup2" is the character SUPERSCRIPT TWO, a digit that is not a decimal
isdigit(text) ==
  /\ text # <<>>
  /\ \A i \in 1..Len(text) : text[i] \in DigitChars \cup {"sup2"}

\* the text without its sign
Unsigned(text) ==
  IF text # <<>> /\ text[1] \in {"-", "+"} THEN Tail(text) ELSE text

\* int(text) does not raise ValueError, for a text without blanks and
\* underscores: an optional sign and decimal digits
int_ok(text) ==
  /\ Unsigned(text) # <<>>
  /\ \A i \in 1..Len(Unsigned(text)) : Unsigned(text)[i] \in DigitChars

\* number of digits from the first that is not 0 on
Significant(text) ==
  LET u == Unsigned(text)
      N == {i \in 1..Len(u) : u[i] # "0"}
  IN  IF N = {} THEN 0
      ELSE Len(u) - (CHOOSE i \in N : \A j \in N : i <= j) + 1

RECURSIVE DigitsValue(_)
DigitsValue(u) ==
  IF u = <<>> THEN 0
  ELSE 10 * DigitsValue(SubSeq(u, 1, Len(u) - 1))
       + ((CHOOSE d \in 1..10 : Digits[d] = u[Len(u)]) - 1)

\* int(text), for a text int_ok of at most 9 significant digits
int(text) ==
  IF text[1] = "-" THEN 0 - DigitsValue(Unsigned(text))
  ELSE DigitsValue(Unsigned(text))

\* str(int(text)) for a text int_ok without "-": the digits from the first
\* that is not 0 on
Canon(text) ==
  LET u == Unsigned(text)
  IN  IF Significant(text) = 0 THEN <<"0">>
      ELSE SubSeq(u, Len(u) - Significant(text) + 1, Len(u))

\* str(n) for n >= 0
RECURSIVE str(_)
str(n) ==
  IF n < 10 THEN <<Digits[n + 1]>>
  ELSE str(n \div 10) \o <<Digits[(n % 10) + 1]>>

\* ------------------------------------------------------------------------
\* Part VI: load_config, save_config and the commands
\* ------------------------------------------------------------------------
\* number of commands handled in a run
MaxCommands == 2

\* number of commands handled in a run of the messaging commands
MaxLifecycle == 3

\* main.py:150, 159, 193
MaxIntervalMinutes == 1440
MaxAdminIdDigits == 10
MaxGroupIdDigits == 13

\* the characters of a group id or of the argument of a command: "A", "B"
\* and "C" are the ids -1001, -1002 and -1003, the others are what they say
\* (with "-sup2" the minus sign and SUPERSCRIPT TWO)
Chars(a) ==
  CASE a = "A" -> <<"-", "1", "0", "0", "1">>
    [] a = "B" -> <<"-", "1", "0", "0", "2">>
    [] a = "C" -> <<"-", "1", "0", "0", "3">>
    [] a = "-0" -> <<"-", "0">>
    [] a = "-sup2" -> <<"-", "sup2">>
    [] a = "1001" -> <<"1", "0", "0", "1">>
    [] a = "-12x" -> <<"-", "1", "2", "x">>
    [] a = "-99999999999999" -> <<"-">> \o Rep("9", 14)
    [] a = "10" -> <<"1", "0">>
    [] a = "2000" -> <<"2", "0", "0", "0">>
    [] a = "0" -> <<"0">>
    [] a = "abc" -> <<"a", "b", "c">>
    [] a = "-3" -> <<"-", "3">>
    [] a = "99999999999999" -> Rep("9", 14)

\* what /add_group and /set_interval may be called with
GroupArgs == {"A", "B", "-0", "-sup2", "1001", "-12x", "-99999999999999"}
IntervalArgs == {"10", "2000", "0", "abc", "-3", "99999999999999"}

\* the user the commands come from (update.effective_user.id)
User == 123

\* main.py:185-198
_validate_group_id(a) ==
  LET text == Chars(a)
  IN  /\ text # <<>>
      /\ text[1] = "-"
      /\ isdigit(Tail(text))
      /\ int_ok(text)
      /\ Significant(text) >= 1
      /\ Significant(text) <= MaxGroupIdDigits

\* bot_controller.py:172-174: the check of add_group_command
AddGroupAccepts(a) ==
  LET text == Chars(a)
  IN  text # <<>> /\ text[1] = "-" /\ isdigit(Tail(text))

\* bot_controller.py:120-123: int(context.args[0]) succeeds and is at least 1
IntervalAccepted(a) ==
  int_ok(Chars(a)) /\ Chars(a)[1] # "-" /\ Significant(Chars(a)) >= 1

\* main.py:173-183 for the messages of the model, which are short and have
\* none of the characters it removes
_sanitize_message(m) == IF m = "" THEN "Invalid message" ELSE m

\* main.py:200-222: what save_config writes for the given lists and interval
save_config(msgs, grps, minutes) ==
  [messages_txt |-> [i \in 1..Len(msgs) |-> _sanitize_message(msgs[i])],
   groups_txt |-> SelectSeq(grps, _validate_group_id),
   settings_txt |-> [interval_minutes |-> minutes,
                     admin_ids |-> [i \in 1..Len(admin_ids) |->
                                      str(admin_ids[i])]]]

\* main.py:105-117, 119-131: the messages and the groups load_config reads
\* ("Testowa wiadomosc": the default of :117, without its diacritics)
LoadedMessages ==
  IF conf.messages_txt = NoFile THEN <<"Testowa wiadomosc">>
  ELSE [i \in 1..Len(conf.messages_txt) |->
          _sanitize_message(conf.messages_txt[i])]

LoadedGroups ==
  IF conf.groups_txt = NoFile THEN <<>>
  ELSE SelectSeq(conf.groups_txt, _validate_group_id)

\* main.py:147-153: the interval load_config sets
LoadedInterval ==
  IF conf.settings_txt = NoFile THEN DefaultInterval
  ELSE LET value == conf.settings_txt.interval_minutes
       IN  IF /\ int_ok(value)
              /\ value[1] # "-"
              /\ Significant(value) >= 1
              /\ Significant(value) <= 4
              /\ int(value) <= MaxIntervalMinutes
             THEN Canon(value)
             ELSE DefaultInterval

\* main.py:155-161: the admin ids load_config sets: the entries that are
\* not isdigit are left out, int of the others may raise ValueError (then
\* the list stays empty), and the ids out of range are left out
LoadedAdmins ==
  IF conf.settings_txt = NoFile THEN <<>>
  ELSE LET xs == SelectSeq(conf.settings_txt.admin_ids, isdigit)
       IN  IF \E i \in 1..Len(xs) : ~int_ok(xs[i]) THEN <<>>
           ELSE LET ok(x) == Significant(x) >= 1
                               /\ Significant(x) <= MaxAdminIdDigits
                    ys == SelectSeq(xs, ok)
                IN  [i \in 1..Len(ys) |-> int(ys[i])]

\* main.py:96-171, called by __init__; with no bot_token.txt the migration
\* it starts with does nothing
load_config ==
  /\ cmd_pc = "new"
  /\ fs[plaintext_file] = NoFile
  /\ messages' = LoadedMessages
  /\ groups' = LoadedGroups
  /\ interval_minutes' = LoadedInterval
  /\ admin_ids' = LoadedAdmins
  /\ cmd_pc' = "idle"
  /\ UNCHANGED <<messaging_active, conf, cmd_log, nonConfig>>

\* an entry of cmd_log: the command, its argument, the reply, the target
\* list before it and whether a dispatch cycle was in progress
Handled(cmd, a, reply) ==
  /\ cmd_log' = Append(cmd_log, [cmd |-> cmd, arg |-> a, reply |-> reply,
                                 before |-> groups,
                                 during |-> dpc \notin {"idle", "returned"}])

\* bot_controller.py:20-21: _is_authorized
_is_authorized == \E i \in 1..Len(admin_ids) : admin_ids[i] = User

\* ------------------------------------------------------------------------
\* Part VI: start_messaging, stop_messaging and the commands that call them
\* ------------------------------------------------------------------------
\* main.py:329: the id of the messaging job of the instance "default"
MessagingJob == "messaging_default"

\* a >= b for the decimal texts of two integers that are not negative
TextAtLeast(a, b) ==
  \/ Len(a) > Len(b)
  \/ /\ Len(a) = Len(b)
     /\ \/ a = b
        \/ \E i \in 1..Len(a) :
             /\ SubSeq(a, 1, i - 1) = SubSeq(b, 1, i - 1)
             /\ DigitsValue(<<a[i]>>) > DigitsValue(<<b[i]>>)

\* main.py:325-331: scheduler.add_job(..., 'interval', minutes=n) has the
\* AsyncIOScheduler build IntervalTrigger(minutes=n), which computes
\* timedelta(minutes=n); that raises OverflowError when n minutes are more
\* than 999999999 days, from n = 1440000000000 on
TimedeltaLimit == <<"1", "4", "4">> \o Rep("0", 10)
IntervalOverflows(minutes) == TextAtLeast(minutes, TimedeltaLimit)

\* how a call of start_messaging that found messaging_active false ends:
\* add_job raises RuntimeError without a scheduler (time_handler.py:322-323)
\* or the OverflowError of the trigger; start() returns when it has started
\* a stopped AsyncIOScheduler and sleeps when it found it running
\* (time_handler.py:305-318)
StartOutcome(minutes) ==
  IF scheduler = "None" \/ IntervalOverflows(minutes) THEN "raised"
  ELSE IF scheduler = "stopped" THEN "returned"
  ELSE "suspended"

\* main.py:317-334 past the test of :319, cfg and jobs being the keys of
\* _jobs_config and the job store when it is called and minutes
\* self.interval_minutes: the flag is set, then
\* add_job (time_handler.py:320-363) stores the id, builds the wrapped_func
\* and gives it to the AsyncIOScheduler, then start() is awaited
start_messaging(cfg, jobs, minutes) ==
  /\ messaging_active' = TRUE
  /\ IF scheduler = "None"
       THEN /\ _jobs_config' = cfg
            /\ apsJobs' = jobs
            /\ UNCHANGED <<regs, jobFunc, scheduler, _running, cpc>>
     ELSE IF IntervalOverflows(minutes)
       THEN /\ _jobs_config' = cfg \cup {MessagingJob}
            /\ apsJobs' = jobs
            /\ UNCHANGED <<regs, jobFunc, scheduler, _running, cpc>>
     ELSE /\ Len(regs) < MaxRegs
          /\ _jobs_config' = cfg \cup {MessagingJob}
          /\ apsJobs' = jobs \cup {MessagingJob}
          /\ regs' = Append(regs, [id |-> MessagingJob,
                                   retry_on_failure |-> FALSE,
                                   _retry_count |-> 0])
          /\ jobFunc' = [jobFunc EXCEPT ![MessagingJob] = Len(regs) + 1]
          /\ StartTry

\* main.py:336-349 past the test of :338, with remove_job
\* (time_handler.py:365-374): the flag is cleared and the id leaves the job
\* store and _jobs_config; an id that is in neither changes nothing
stop_messaging ==
  /\ messaging_active' = FALSE
  /\ apsJobs' = apsJobs \ {MessagingJob}
  /\ _jobs_config' = _jobs_config \ {MessagingJob}

\* the handler of a command is run to its end before the next update is
\* taken (the Application is built without concurrent_updates, main.py:
\* 238-250), and no two calls of start() are in progress
NoHandler == cmd_pc = "idle" /\ cpc = "idle"

\* bot_controller.py:32-54: /start
start_command ==
  /\ NoHandler
  /\ Len(cmd_log) < MaxLifecycle
  /\ IF ~_is_authorized
       THEN /\ Handled("start", "", "Access Denied")
            /\ UNCHANGED <<messaging_active, cmd_pc, jobVars>>
     ELSE IF messaging_active
       THEN /\ Handled("start", "", "Already Running")
            /\ UNCHANGED <<messaging_active, cmd_pc, jobVars>>
     ELSE /\ start_messaging(_jobs_config, apsJobs, interval_minutes)
          /\ cmd_pc' = IF StartOutcome(interval_minutes) = "suspended"
                         THEN "start" ELSE "idle"
          /\ Handled("start", "",
                     IF StartOutcome(interval_minutes) = "returned"
                       THEN "Bot Started" ELSE "")
  /\ UNCHANGED <<groups, messages, interval_minutes, admin_ids, conf,
                 left_running, nonMessaging>>

\* bot_controller.py:56-75: /stop
stop_command ==
  /\ NoHandler
  /\ Len(cmd_log) < MaxLifecycle
  /\ IF ~_is_authorized
       THEN /\ Handled("stop", "", "Access Denied")
            /\ UNCHANGED <<messaging_active, jobVars>>
     ELSE IF ~messaging_active
       THEN /\ Handled("stop", "", "Already Stopped")
            /\ UNCHANGED <<messaging_active, jobVars>>
     ELSE /\ stop_messaging
          /\ Handled("stop", "", "Bot Stopped")
          /\ UNCHANGED <<regs, jobFunc, scheduler, _running, cpc>>
  /\ UNCHANGED <<groups, messages, interval_minutes, admin_ids, cmd_pc, conf,
                 left_running, nonMessaging>>

\* main.py:351-357: restart_messaging
restart_messaging ==
  /\ NoHandler
  /\ Len(cmd_log) < MaxLifecycle
  /\ IF messaging_active
       THEN /\ start_messaging(_jobs_config \ {MessagingJob},
                               apsJobs \ {MessagingJob}, interval_minutes)
            /\ cmd_pc' = IF StartOutcome(interval_minutes) = "suspended"
                           THEN "start" ELSE "idle"
            /\ Handled("restart_messaging", "",
                       IF StartOutcome(interval_minutes) = "returned"
                         THEN "returned" ELSE "")
       ELSE /\ Handled("restart_messaging", "", "returned")
            /\ UNCHANGED <<messaging_active, cmd_pc, jobVars>>
  /\ UNCHANGED <<groups, messages, interval_minutes, admin_ids, conf,
                 left_running, nonMessaging>>

\* bot_controller.py:107-152: /set_interval with one argument. With
\* messaging active the handler awaits stop_messaging and start_messaging
\* before it saves; what start_messaging raises is no ValueError and leaves
\* the handler.
set_interval_command(a) ==
  /\ NoHandler
  /\ Len(cmd_log) < MaxCommands
  /\ IF ~_is_authorized
       THEN /\ Handled("set_interval", a, "Access Denied")
            /\ UNCHANGED <<interval_minutes, messaging_active, cmd_pc, conf,
                           jobVars>>
     ELSE IF ~IntervalAccepted(a)
       THEN /\ Handled("set_interval", a, "Invalid Interval")
            /\ UNCHANGED <<interval_minutes, messaging_active, cmd_pc, conf,
                           jobVars>>
     ELSE /\ interval_minutes' = Canon(Chars(a))
          /\ IF messaging_active
               THEN /\ start_messaging(_jobs_config \ {MessagingJob},
                                       apsJobs \ {MessagingJob},
                                       Canon(Chars(a)))
                    /\ IF StartOutcome(Canon(Chars(a))) = "returned"
                         THEN /\ conf' = save_config(messages, groups,
                                                     interval_minutes')
                              /\ Handled("set_interval", a, "Interval Updated")
                              /\ UNCHANGED cmd_pc
                         ELSE /\ cmd_pc' = IF StartOutcome(Canon(Chars(a)))
                                                = "suspended"
                                             THEN "restart" ELSE "idle"
                              /\ Handled("set_interval", a, "")
                              /\ UNCHANGED conf
               ELSE /\ conf' = save_config(messages, groups, interval_minutes')
                    /\ Handled("set_interval", a, "Interval Updated")
                    /\ UNCHANGED <<messaging_active, cmd_pc, jobVars>>
  /\ UNCHANGED <<groups, messages, admin_ids, left_running, nonMessaging>>

\* main.py:364-389: AndroidTelegramBot.shutdown, from the signal handler or
\* at the end of run(): stop_messaging, then ResilientScheduler.shutdown
\* (time_handler.py:382-390), then the Application is stopped, which lets a
\* handler in progress end and takes no further update
bot_shutdown ==
  /\ cmd_pc \in {"idle", "start", "restart"}
  /\ IF messaging_active
       THEN stop_messaging
       ELSE UNCHANGED <<messaging_active, apsJobs, _jobs_config>>
  /\ IF scheduler # "None" /\ _running
       THEN /\ scheduler' = "stopped"
            /\ _running' = FALSE
            /\ left_running' = {k \in 1..Len(firings) :
                                  firings[k].st = "running"}
       ELSE UNCHANGED <<scheduler, _running, left_running>>
  /\ cmd_pc' = CASE cmd_pc = "idle" -> "down"
                  [] cmd_pc = "start" -> "start_down"
                  [] cmd_pc = "restart" -> "restart_down"
  /\ UNCHANGED <<regs, jobFunc, cpc, groups, messages, interval_minutes,
                 admin_ids, conf, cmd_log, nonMessaging>>

\* bot_controller.py:45-54: start() and start_messaging have returned; the
\* handler of /start replies (restart_messaging only logs)
StartReturns ==
  /\ cmd_pc \in {"start", "start_down"}
  /\ cpc = "idle"
  /\ cmd_pc' = IF cmd_pc = "start" THEN "idle" ELSE "down"
  /\ cmd_log' = [cmd_log EXCEPT ![Len(cmd_log)].reply =
                   IF cmd_log[Len(cmd_log)].cmd = "start"
                     THEN "Bot Started" ELSE "returned"]
  /\ UNCHANGED <<groups, messages, interval_minutes, admin_ids,
                 messaging_active, conf, jobVars, left_running, nonMessaging>>

\* bot_controller.py:133-141: start() and start_messaging have returned;
\* the handler of /set_interval saves and replies
RestartReturns ==
  /\ cmd_pc \in {"restart", "restart_down"}
  /\ cpc = "idle"
  /\ cmd_pc' = IF cmd_pc = "restart" THEN "idle" ELSE "down"
  /\ conf' = save_config(messages, groups, interval_minutes)
  /\ cmd_log' = [cmd_log EXCEPT ![Len(cmd_log)].reply = "Interval Updated"]
  /\ UNCHANGED <<groups, messages, interval_minutes, admin_ids,
                 messaging_active, jobVars, left_running, nonMessaging>>

\* bot_controller.py:154-200: /add_group with one argument
add_group_command(a) ==
  /\ cmd_pc = "idle"
  /\ Len(cmd_log) < MaxCommands
  /\ IF ~_is_authorized
       THEN /\ Handled("add_group", a, "Access Denied")
            /\ UNCHANGED <<groups, conf>>
     ELSE IF ~AddGroupAccepts(a)
       THEN /\ Handled("add_group", a, "Invalid Group ID")
            /\ UNCHANGED <<groups, conf>>
     ELSE IF \E i \in 1..Len(groups) : groups[i] = a
       THEN /\ Handled("add_group", a, "Group Already Added")
            /\ UNCHANGED <<groups, conf>>
     ELSE /\ groups' = Append(groups, a)
          /\ conf' = save_config(messages, groups', interval_minutes)
          /\ Handled("add_group", a, "Group Added")
  /\ UNCHANGED <<messages, interval_minutes, admin_ids, messaging_active,
                 cmd_pc, nonConfig>>

\* list.remove: the list without the first occurrence of a
Removed(list, a) ==
  LET k == CHOOSE i \in 1..Len(list) :
             list[i] = a /\ \A j \in 1..(i - 1) : list[j] # a
  IN  SubSeq(list, 1, k - 1) \o SubSeq(list, k + 1, Len(list))

\* bot_controller.py:202-246: /remove_group with one argument
remove_group_command(a) ==
  /\ cmd_pc = "idle"
  /\ Len(cmd_log) < MaxCommands
  /\ IF ~_is_authorized
       THEN /\ Handled("remove_group", a, "Access Denied")
            /\ UNCHANGED <<groups, conf>>
     ELSE IF ~\E i \in 1..Len(groups) : groups[i] = a
       THEN /\ Handled("remove_group", a, "Group Not Found")
            /\ UNCHANGED <<groups, conf>>
     ELSE /\ groups' = Removed(groups, a)
          /\ conf' = save_config(messages, groups', interval_minutes)
          /\ Handled("remove_group", a, "Group Removed")
  /\ UNCHANGED <<messages, interval_minutes, admin_ids, messaging_active,
                 cmd_pc, nonConfig>>

\* the program is ended and started again: AndroidTelegramBot.__init__
\* (main.py:37-60) before it calls load_config; the files stay
Restarted ==
  /\ cmd_pc = "idle"
  /\ cmd_log # <<>>
  /\ cmd_pc' = "new"
  /\ groups' = <<>>
  /\ messages' = <<>>
  /\ interval_minutes' = DefaultInterval
  /\ admin_ids' = <<>>
  /\ messaging_active' = FALSE
  /\ UNCHANGED <<conf, cmd_log, nonConfig>>

\* the settings.txt, groups.txt and messages.txt a new bot may find
SettingsFiles ==
  {NoFile} \cup
  [interval_minutes : {Chars("10"), Chars("0"), Chars("abc"), Chars("2000")},
   admin_ids : {<<str(User)>>, <<str(User), Chars("abc")>>,
                <<str(User), <<"sup2">>>>, <<str(User), <<"0">>>>}]

GroupsFiles == {NoFile, <<"A">>, <<"A", "-0">>}

\* AndroidTelegramBot.__init__ before it calls load_config (main.py:37-60);
\* messaging is not started in this part
ConfigInit ==
  /\ SQuiet
  /\ VQuiet
  /\ MQuiet
  /\ TQuiet
  /\ DNoCycle
  /\ groups = <<>>
  /\ messages = <<>>
  /\ interval_minutes = DefaultInterval
  /\ admin_ids = <<>>
  /\ messaging_active = FALSE
  /\ cmd_pc = "new"
  /\ cmd_log = <<>>
  /\ \E st \in SettingsFiles, gr \in GroupsFiles :
       conf = [messages_txt |-> NoFile, groups_txt |-> gr, settings_txt |-> st]

ConfigNext ==
  \/ load_config
  \/ \E a \in IntervalArgs : set_interval_command(a)
  \/ \E a \in GroupArgs : add_group_command(a)
  \/ \E a \in GroupArgs : remove_group_command(a)
  \/ Restarted

SpecConfig == ConfigInit /\ [][ConfigNext]_vars

\* ------------------------------------------------------------------------
\* Part VI: commands while a dispatch cycle is in progress
\* ------------------------------------------------------------------------
\* the target lists the cycle may be started with
LiveLists ==
  {g \in SeqsUpTo(Targets, 2) : \A i, j \in 1..Len(g) : g[i] = g[j] => i = j}

\* the event loop runs a command handler before the cycle has started or
\* while the coroutine send_messages_with_retry is suspended at an await:
\* in bot.send_message (main.py:297) or in asyncio.sleep (main.py:310)
AtAwait == dpc \in {"idle", "sending", "sleeping"}

\* the scheduler as initialize() and the first start_messaging leave it
\* when the initial sync has failed
MessagingStarted ==
  /\ date = <<3, 24>>
  /\ now = 0
  /\ last_sync = <<>>
  /\ offset = 0
  /\ scheduler = "running"
  /\ _running = TRUE
  /\ _jobs_config = {MessagingJob}
  /\ regs = <<[id |-> MessagingJob, retry_on_failure |-> FALSE,
               _retry_count |-> 0]>>
  /\ apsJobs = {"time_sync_job", MessagingJob}
  /\ jobFunc = [id \in UserJobIds |-> 1]
  /\ instances = [id \in JobIds |-> 0]
  /\ firings = <<>>
  /\ cpc = "idle"
  /\ left_running = {}

\* a bot that has loaded its configuration and started messaging
\* (main.py:317-334), one admin, no cycle in progress yet
LiveInit ==
  /\ MessagingStarted
  /\ VQuiet
  /\ MQuiet
  /\ TQuiet
  /\ DNoCycle
  /\ groups \in LiveLists
  /\ messages = <<"hi">>
  /\ interval_minutes = DefaultInterval
  /\ admin_ids = <<User>>
  /\ messaging_active = TRUE
  /\ cmd_pc = "idle"
  /\ cmd_log = <<>>
  /\ conf = save_config(messages, groups, interval_minutes)

LiveNext ==
  \/ \E R \in 1..DefaultMaxRetries : CycleStart(R)
  \/ ForNext
  \/ WhileTest
  \/ SendOk
  \/ SendFail
  \/ SleepDone
  \/ AtAwait /\ \E a \in Targets : add_group_command(a)
  \/ AtAwait /\ \E a \in Targets : remove_group_command(a)

SpecLive == LiveInit /\ [][LiveNext]_vars

\* ------------------------------------------------------------------------
\* Part II: the sync job, the wrapper's sync and a dispatch cycle together
\* ------------------------------------------------------------------------
\* how far the time servers are ahead of the local clock at local time t:
\* the local clock loses a second every half sync interval
ServerAhead(t) == 7 + t \div (sync_interval \div 2)

\* what get_ntp_time may return at the present time: None or the tx_time
SyncAnswers == {<<>>, <<now + ServerAhead(now)>>}

\* a run of the messaging job is in its callback, send_messages_with_retry
InCallback == \E k \in Firings : At(k, "callback") /\ firings[k].id \in UserJobIds

\* the started scheduler with the messaging job, as in ShutInit, and a bot
\* with one target and one message
SyncInit ==
  /\ OQuiet
  /\ date = <<3, 24>>
  /\ now = 0
  /\ \E t \in SyncAnswers :
       IF t = <<>> THEN last_sync = <<>> /\ offset = 0
                   ELSE last_sync = <<now>> /\ offset = t[1] - now
  /\ scheduler = "running"
  /\ _running = TRUE
  /\ _jobs_config = {"messaging_default"}
  /\ regs = <<[id |-> "messaging_default", retry_on_failure |-> FALSE,
               _retry_count |-> 0]>>
  /\ apsJobs = {"time_sync_job", "messaging_default"}
  /\ jobFunc = [id \in UserJobIds |-> 1]
  /\ instances = [id \in JobIds |-> 0]
  /\ firings = <<>>
  /\ cpc = "idle"
  /\ left_running = {}
  /\ groups = <<"A">>
  /\ messages = <<"hi">>
  /\ DNoCycle
  /\ VQuiet

\* the runs of both jobs while the clock advances; the callback of the
\* messaging job is a dispatch cycle (main.py:324-325), called with the
\* default max_retries, and the run returns when the cycle has
SyncNext ==
  \/ Tick
  \/ \E id \in JobIds : Trigger(id)
  \/ \E k \in Firings : WrapEntry(k)
  \/ \E k \in Firings, t \in SyncAnswers : WrapSyncDone(k, t)
  \/ \E k \in Firings : PeriodicEntry(k)
  \/ \E k \in Firings, t \in SyncAnswers : PeriodicSyncDone(k, t)
  \/ InCallback /\ CycleStart(DefaultMaxRetries)
  \/ ForNext
  \/ WhileTest
  \/ SendOk
  \/ SendFail
  \/ SleepDone
  \/ dpc = "returned" /\ \E k \in Firings : CallbackReturn(k)
  \/ ~InCallback /\ CycleReturn

SpecSync == SyncInit /\ [][SyncNext]_vars

\* ------------------------------------------------------------------------
\* Part VI: the messaging commands, shutdown and the runs of the job
\* ------------------------------------------------------------------------
\* the intervals /set_interval is called with here
LifecycleIntervals == {"10", "99999999999999"}

\* the bot when run() has called initialize() (main.py:391-395): the
\* AsyncIOScheduler is built and not started, the initial sync has given a
\* time or not; one admin, one target, messaging not started
LifecycleInit ==
  /\ MQuiet
  /\ TQuiet
  /\ VQuiet
  /\ DNoCycle
  /\ date = <<3, 24>>
  /\ now = 0
  /\ \E t \in NtpResults :
       IF t = <<>> THEN last_sync = <<>> /\ offset = 0
                   ELSE last_sync = <<now>> /\ offset = t[1] - now
  /\ scheduler = "stopped"
  /\ _running = FALSE
  /\ _jobs_config = {}
  /\ regs = <<>>
  /\ apsJobs = {"time_sync_job"}
  /\ jobFunc = [id \in UserJobIds |-> 0]
  /\ instances = [id \in JobIds |-> 0]
  /\ firings = <<>>
  /\ cpc = "idle"
  /\ left_running = {}
  /\ groups = <<"A">>
  /\ messages = <<"hi">>
  /\ interval_minutes = DefaultInterval
  /\ admin_ids = <<User>>
  /\ messaging_active = FALSE
  /\ cmd_pc = "idle"
  /\ cmd_log = <<>>
  /\ conf = save_config(messages, groups, interval_minutes)

\* the commands one after the other, shutdown at any time, the sleeps of
\* start() and the runs of the messaging job up to the call of its callback
LifecycleNext ==
  \/ start_command
  \/ stop_command
  \/ restart_messaging
  \/ \E a \in LifecycleIntervals : set_interval_command(a)
  \/ bot_shutdown
  \/ StartSleepDone
  \/ StartReturns
  \/ RestartReturns
  \/ Trigger(MessagingJob)
  \/ \E k \in Firings : WrapEntry(k)
  \/ \E k \in Firings, t \in NtpResults : WrapSyncDone(k, t)
  \/ \E k \in Firings : CallbackReturn(k)

SpecLifecycle == LifecycleInit /\ [][LifecycleNext]_vars

\* the event loop resumes a coroutine whose sleep is over or whose awaited
\* call has returned
SpecLifecycleFair ==
  /\ SpecLifecycle
  /\ WF_vars(StartSleepDone)
  /\ WF_vars(StartReturns)
  /\ WF_vars(RestartReturns)

\* ------------------------------------------------------------------------
\* Part III: the token file from one process to the next
\* ------------------------------------------------------------------------
\* number of times the program is started again
MaxRestarts == 2

\* main.py:48-49 in a process started later: AndroidTelegramBot.__init__
\* builds SecurityManager() without a master key, so __init__
\* (security_manager.py:29-34) draws a new one and _init_encryption
\* (:60-72) a new salt; the rate limiter is empty again and the files are
\* as the last process left them
NewProcess ==
  /\ save_pc \in {"idle", "stopped"}
  /\ master_key < 1 + 2 * MaxRestarts
  /\ master_key' = master_key + 2
  /\ _salt' = _salt + 2
  /\ _rate_limiter' = [o \in Operations |-> <<>>]
  /\ vres' = NoResult
  /\ save_pc' = "idle"
  /\ encrypted' = <<>>
  /\ UNCHANGED <<issued, vault_calls, rate_calls, fs, now, schedButNow, dvars,
                 ovars>>

\* a new configuration directory and the first process
RestartInit == OQuiet /\ SQuiet /\ DQuiet /\ VQuiet

\* set_token and get_token (security_manager.py:400-418) in a process and
\* in the ones started after it
RestartNext ==
  \/ \E token \in TokenPool : save_encrypted_token(token)
  \/ SaveOpen
  \/ SaveWrite
  \/ SaveClose
  \/ SaveRename
  \/ SaveChmod
  \/ SaveStop
  \/ NewProcess
  \/ load_encrypted_token

SpecRestart == RestartInit /\ [][RestartNext]_vars

\* ------------------------------------------------------------------------
\* Part II: properties of the scheduler and of the wrapper
\* ------------------------------------------------------------------------
\* the firings of job id that are running
RunningOf(id) == {k \in Firings : firings[k].id = id /\ firings[k].st = "running"}

\* the firings that run the wrapper of add_job
Wrapped == {k \in Firings : firings[k].id \in UserJobIds}

\* C6: whatever add_job, remove_job, start and the triggers do, at most one
\* firing of a job id is running at a time: a later firing of an id runs
\* only when every earlier firing of that id has ended or was skipped, also
\* while the earlier one is in its sync, its callback or its retry backoff,
\* and also when the id was removed and added again meanwhile.
C6_SingleInstance ==
  /\ \A id \in JobIds :
       /\ Cardinality(RunningOf(id)) <= 1
       /\ instances[id] = Cardinality(RunningOf(id))
  /\ \A i, j \in Firings :
       (i < j /\ firings[i].id = firings[j].id /\ firings[j].st = "running")
         => firings[i].st \in {"returned", "skipped"}

C6_Witness ==
  /\ Len(firings) = 2
  /\ firings[1].id = "messaging_default"
  /\ firings[2].id = "messaging_default"
  /\ firings[1].st = "running"
  /\ firings[1].pc = "backoff"
  /\ firings[1].reg = 1
  /\ firings[2].st = "skipped"
  /\ firings[2].reg = 2

\* C7: a trigger that comes due while a firing of the same id is running is
\* recorded as skipped, and a skipped firing stays skipped for ever: it is
\* never run later (so fewer firings may run than triggers came due).
C7_OverlapDropped ==
  [][/\ \A k \in Firings :
          firings[k].st = "skipped" =>
            /\ k <= Len(firings')
            /\ firings'[k] = firings[k]
            /\ firings[k].calls = 0
     /\ Len(firings') > Len(firings) =>
          LET n == firings'[Len(firings')]
          IN  /\ n.st \in {"skipped", "running"}
              /\ n.st = "skipped" <=> RunningOf(n.id) # {}
    ]_vars

C7_Witness ==
  /\ Len(firings) = 2
  /\ firings[1].id = firings[2].id
  /\ firings[1].st = "returned"
  /\ firings[2].st = "skipped"
  /\ instances[firings[1].id] = 0

\* C8: when a firing of a job registered with retry_on_failure starts, the
\* retry counter of its wrapper is 0.
C8_CounterResetPerFiring ==
  \A k \in Wrapped :
    (firings[k].st = "running" /\ firings[k].pc = "entry" /\ firings[k].calls = 0
       /\ regs[firings[k].reg].retry_on_failure)
      => regs[firings[k].reg]._retry_count = 0

\* C9: a firing never ends with an exception; without retry_on_failure it
\* calls the callback at most once and never sleeps; with it, it calls the
\* callback at most 4 times, every call after the first right after a
\* backoff sleep of 2^attempt seconds, attempt being the value of the retry
\* counter at that failure; it gives up on a failure only when the counter
\* has reached 3.
C9_BoundedRetry ==
  \A k \in Wrapped :
    LET f == firings[k]
        r == regs[f.reg]
    IN  /\ f.st # "raised"
        /\ ~r.retry_on_failure => f.calls <= 1 /\ f.sleeps = <<>>
        /\ f.calls <= 4
        /\ Len(f.sleeps) <= 3
        /\ f.calls <= Len(f.sleeps) + 1
        /\ f.pc = "callback" => f.calls = Len(f.sleeps) + 1
        /\ \A i \in 1..Len(f.sleeps) : f.sleeps[i] = 2 ^ (f.start + i - 1)
        /\ (f.st = "returned" /\ f.last = "raised") =>
             /\ f.calls = Len(f.sleeps) + 1
             /\ ~r.retry_on_failure => f.calls = 1
             /\ r.retry_on_failure => r._retry_count = 3

C9_Witness ==
  \E k \in Wrapped :
    /\ firings[k].st = "returned"
    /\ firings[k].last = "raised"
    /\ firings[k].calls = 4
    /\ firings[k].sleeps = <<1, 2, 4>>

\* C10: the wrapper calls the real callback only after it has evaluated
\* is_sync_needed and, when that was true, after its sync attempt has
\* ended, successfully or not; and no firing ends without having called the
\* callback.
C10_PreRunFreshness ==
  \A k \in Wrapped :
    LET f == firings[k]
    IN  /\ f.pc = "syncing" => f.needed = "yes" /\ f.sync = "none"
        /\ f.pc = "callback" =>
             /\ f.needed \in {"yes", "no"}
             /\ f.needed = "yes" => f.sync \in {"ok", "failed"}
             /\ f.needed = "no" => f.sync = "none" /\ last_sync # <<>>
             /\ f.sync = "ok" => last_sync # <<>>
        /\ f.pc \in {"callback", "backoff"} => f.calls >= 1
        /\ f.st = "returned" => f.calls >= 1

C10_Witness ==
  \E k \in Wrapped :
    /\ firings[k].pc = "callback"
    /\ firings[k].needed = "yes"
    /\ firings[k].sync = "failed"
    /\ last_sync # <<>>

Prior(i) == {j \in 1..(i - 1) : rate_calls[j].operation = rate_calls[i].operation}

\* C12: a call is allowed when fewer than M calls for its operation were made
\* in the W seconds before it; it is denied when M allowed calls for its
\* operation were made in the W seconds before it (it is the (M+1)-th); and it
\* is allowed when W seconds or more have elapsed since the earliest attempt
\* on record.
C12_SlidingWindow ==
  \A i \in 1..Len(rate_calls) :
    LET c == rate_calls[i]
        recent == {j \in Prior(i) : c.at - rate_calls[j].at < c.window_seconds}
    IN  /\ Cardinality(recent) < c.max_attempts => c.allowed
        /\ Cardinality({j \in recent : rate_calls[j].allowed}) >= c.max_attempts
             => ~c.allowed
        /\ (c.recorded # <<>> /\ c.at - c.recorded[1] >= c.window_seconds)
             => c.allowed

C12_Witness ==
  \E i, j \in 1..Len(rate_calls) :
    /\ i < j
    /\ rate_calls[i].operation = rate_calls[j].operation
    /\ rate_calls[i].max_attempts = 2
    /\ Cardinality(Prior(i)) = 2
    /\ ~rate_calls[i].allowed
    /\ rate_calls[j].allowed
    /\ Len(rate_calls[j].recorded) = 2
    /\ rate_calls[j].at - rate_calls[j].recorded[1] = rate_calls[j].window_seconds

\* the times of the allowed calls of the log for operation o, in order
AllowedTimes(o) ==
  LET a == SelectSeq(rate_calls, LAMBDA c : c.operation = o /\ c.allowed)
  IN  [i \in 1..Len(a) |-> a[i].at]

\* C13: a denied call leaves for its operation exactly the recorded attempts
\* that are younger than the window, and adds none; an allowed call adds its
\* own time to them; no call changes what is recorded for another operation.
\* So what is recorded for an operation is always a tail of the times of its
\* allowed calls, and a denied call never extends the lock-out.
C13_DeniedRecordsNothing ==
  [][/\ rate_calls' # rate_calls =>
          LET c == rate_calls'[Len(rate_calls')]
              kept == SelectSeq(_rate_limiter[c.operation],
                                LAMBDA t : c.at - t < c.window_seconds)
          IN  /\ \A o \in Operations \ {c.operation} :
                   _rate_limiter'[o] = _rate_limiter[o]
              /\ ~c.allowed => _rate_limiter'[c.operation] = kept
              /\ c.allowed => _rate_limiter'[c.operation] = Append(kept, c.at)
     /\ \A o \in Operations :
          \E n \in 0..Len(AllowedTimes(o)) :
            _rate_limiter[o] = SubSeq(AllowedTimes(o), n + 1, Len(AllowedTimes(o)))
    ]_vars

C13_Witness ==
  /\ Len(rate_calls) >= 3
  /\ LET c == rate_calls[Len(rate_calls)]
     IN  /\ ~c.allowed
         /\ c.recorded # <<>>
         /\ c.at > c.recorded[1]
         /\ _rate_limiter[c.operation] = c.recorded
         /\ \E o \in Operations \ {c.operation} : _rate_limiter[o] # <<>>

\* C14: decrypt_token given an envelope that encrypt_token of the same
\* instance returned for a token the validator accepts, and not refused by
\* the rate limiter, returns exactly that token.
C14_VaultRoundTrip ==
  (vres.op = "decrypt_token" /\ vres.cause # "Rate limit exceeded") =>
    \A e \in issued :
      (e.blob = vres.arg /\ e.token \in AcceptedTokens) =>
        /\ ~vres.raised
        /\ vres.value = e.token

C14_Witness ==
  /\ vres.op = "decrypt_token"
  /\ ~vres.raised
  /\ vres.value = ExampleToken
  /\ [token |-> ExampleToken, blob |-> vres.arg] \in issued
  /\ ExampleToken \in AcceptedTokens

\* C15: decrypt_token given an envelope that differs in one byte from an
\* envelope encrypt_token returned ends in a SecurityError.
C15_TamperDetection ==
  (vres.op = "decrypt_token" /\ \E e \in issued : vres.arg \in Tamperings(e.blob))
    => vres.raised

\* C16: a call of encrypt_token, decrypt_token or verify_bot_connection that
\* exceeds the budget of its operation raises a SecurityError and has not
\* performed its operation.
C16_RateLimitGate ==
  (vres.op \in Operations /\ vres.cause = "Rate limit exceeded") =>
    /\ vres.raised
    /\ ~vres.performed

\* the salt an envelope carries
SaltOf(blob) == blob.of.of.data.salt

\* C18: no two envelopes encrypt_token returned carry the same salt.
C18_SaltFreshness ==
  \A e1, e2 \in issued : e1 # e2 => SaltOf(e1.blob) # SaltOf(e2.blob)

\* the call was decrypt_token of an intact envelope under the key of the
\* instance, not refused by the rate limiter
DecryptedAuthentic ==
  /\ vres.op = "decrypt_token"
  /\ vres.cause # "Rate limit exceeded"
  /\ vres.arg.wellformed
  /\ vres.arg.of.wellformed
  /\ vres.arg.of.of.genuine
  /\ vres.arg.of.of.key = cipher_suite

\* C19 as claimed: decrypt_token raises whenever one of the six fields is
\* missing from the authenticated metadata.
C19_AllFieldsRequired ==
  (DecryptedAuthentic /\ DOMAIN vres.arg.of.of.data # Fields) => vres.raised

\* C19 as amended: decrypt_token raises and returns nothing whenever token,
\* encrypted_at or salt is missing from the authenticated metadata, and
\* returns the token when these three are there, whichever of algorithm,
\* iterations and version are missing.
C19_RequiredFieldsChecked ==
  DecryptedAuthentic =>
    LET metadata == vres.arg.of.of.data
    IN  IF {"token", "encrypted_at", "salt"} \subseteq DOMAIN metadata
          THEN ~vres.raised /\ vres.value = metadata["token"]
          ELSE vres.raised /\ vres.value = <<>>

C19_Witness ==
  /\ DecryptedAuthentic
  /\ DOMAIN vres.arg.of.of.data = Fields \ {"salt"}
  /\ vres.raised
  /\ vres.cause = "Invalid token metadata"

C20_AtomicPersistence ==
  [][/\ fs'[filepath] # fs[filepath] =>
          \/ /\ save_pc = "rename"
             /\ save_pc' = "chmod"
             /\ fs'[filepath].blob = encrypted
             /\ fs'[filepath].part = "all"
          \/ /\ save_pc = "chmod"
             /\ fs[filepath] # NoFile
             /\ fs'[filepath] = [fs[filepath] EXCEPT !.mode = "0600"]
     /\ (vres'.raised /\ vres'.op = "save_encrypted_token"
           /\ save_pc \in {"idle", "open", "write", "flush", "rename"})
          => fs'[filepath] = fs[filepath]
     /\ save_pc' = "stopped" => fs' = fs
     /\ save_pc = "stopped" => fs' = fs
    ]_vars

C20_Witness ==
  /\ save_pc = "stopped"
  /\ fs[temp_filepath] # NoFile
  /\ fs[temp_filepath].part = "some"
  /\ fs[filepath] = PreviousFile
  /\ fs[temp_filepath].blob # fs[filepath].blob

\* C21: whenever a complete envelope is at the final path, also at the
\* steps inside save_encrypted_token, the permissions of the file are those
\* of the owner only (0600); "umask" stands for the permissions open() gives
\* a new file, 0666 without the bits of the umask of the process, which are
\* the owner's only under a umask of 077.
C21_OwnerOnlyVaultFile ==
  (fs[filepath] # NoFile /\ fs[filepath].part = "all") =>
    fs[filepath].mode = "0600"

\* the token is in bot_token.txt, or the complete envelope of it is in
\* bot_token.enc
Kept(t) ==
  \/ /\ fs[plaintext_file] # NoFile
     /\ strip(fs[plaintext_file].blob) = t
  \/ /\ fs[filepath] # NoFile
     /\ fs[filepath].part = "all"
     /\ fs[filepath].blob.of.of.data.token = t

\* the condition of security_manager.py:374
MigrationDue == fs[plaintext_file] # NoFile /\ fs[filepath] = NoFile

\* C22: migrate_plaintext_token goes to work only when bot_token.txt exists
\* and bot_token.enc does not, and a call made otherwise (so a second call
\* after a migration) changes no file; the only change ever made to
\* bot_token.txt is its deletion, made when the complete envelope of its
\* token is in bot_token.enc; so a token that is in one of the two files is
\* still in one of them after every step, failed or not.
C22_MigrationOrdering ==
  [][/\ (migrate_pc = "idle" /\ migrate_pc' # "idle") => MigrationDue
     /\ (migrate_pc = "idle" /\ mres'.calls # mres.calls /\ ~MigrationDue) =>
          (fs' = fs /\ migrate_pc' = "idle")
     /\ fs'[plaintext_file] # fs[plaintext_file] =>
          /\ fs'[plaintext_file] = NoFile
          /\ fs[filepath] # NoFile
          /\ fs[filepath].part = "all"
          /\ fs[filepath].blob.of.of.data.token = strip(fs[plaintext_file].blob)
          /\ fs'[filepath] = fs[filepath]
     /\ \A t \in TokenPool : Kept(t) => Kept(t)'
    ]_vars

\* a second call after a migration has returned
C22_Witness ==
  /\ mres.calls = 2
  /\ mres.ended = "nothing"
  /\ migrate_pc = "idle"
  /\ fs[plaintext_file] = NoFile
  /\ fs[backup_file] # NoFile
  /\ fs[backup_file].blob = ExampleToken \o <<"\n">>
  /\ fs[backup_file].mode = "0600"
  /\ Kept(ExampleToken)

\* C23: when what bot_token.txt holds is empty or fails
\* _validate_token_format, the call ends at the check (or with an error of
\* the read) and no file is made, changed or deleted.
C23_MigrationAbort ==
  [][(/\ migrate_pc = "read"
      /\ ~_validate_token_format(strip(fs[plaintext_file].blob)))
       => /\ fs' = fs
          /\ migrate_pc' = "idle"
          /\ save_pc' = save_pc
    ]_vars

C23_Witness ==
  /\ mres.ended = "aborted"
  /\ migrate_pc = "idle"
  /\ migrate_token = BadToken
  /\ fs[plaintext_file] # NoFile
  /\ fs[plaintext_file].blob = BadToken
  /\ fs[filepath] = NoFile
  /\ fs[backup_file] = NoFile

\* C24: when a call of migrate_plaintext_token that made the backup has
\* ended, normally or with an error, the permissions of bot_token.txt.bak
\* are 0600.
C24_RestrictiveBackup ==
  (migrate_pc = "idle" /\ mres.backup) => fs[backup_file].mode = "0600"

\* the index in sync_log of the last call of sync_time that returned True,
\* or 0
LastSuccess ==
  LET S == {i \in 1..Len(sync_log) : sync_log[i].returned}
  IN  IF S = {} THEN 0 ELSE CHOOSE i \in S : \A j \in S : j <= i

\* C25: get_current_time is the local time as long as no call of sync_time
\* has returned True, and otherwise the local time plus the offset (the time
\* of the server less the local time) found by the last call that did.
C25_TimeCorrection ==
  IF LastSuccess = 0
    THEN get_current_time = now
    ELSE get_current_time =
           now + (sync_log[LastSuccess].ntp_time[1] - sync_log[LastSuccess].local)

\* two calls returned True with different offsets, and time has passed
C25_Witness ==
  /\ Len(sync_log) = 2
  /\ sync_log[1].returned
  /\ sync_log[2].returned
  /\ sync_log[1].ntp_time[1] - sync_log[1].local = 7
  /\ sync_log[2].ntp_time[1] - sync_log[2].local = -3
  /\ now > sync_log[2].local
  /\ get_current_time = now - 3

\* C26: a call of sync_time that ends in failure (no network, or no valid
\* answer from any server in any attempt, or an exception) returns False and
\* leaves offset and last_sync as they were.
C26_FailedSyncKeepsState ==
  [][(/\ Len(sync_log') = Len(sync_log) + 1
      /\ sync_log'[Len(sync_log')].ntp_time = <<>>)
       => /\ ~sync_log'[Len(sync_log')].returned
          /\ offset' = offset
          /\ last_sync' = last_sync
    ]_vars

\* after a call that returned True, one in which every server failed
C26_Witness ==
  /\ Len(sync_log) = 2
  /\ sync_log[1].returned
  /\ ~sync_log[2].returned
  /\ sync_log[2].asked
  /\ offset = 7
  /\ last_sync = <<sync_log[1].local>>

\* the DST transition window: March or October from day 25 on, or any day
\* of February, April, September or November
InWindow ==
  \/ date[1] \in {3, 10} /\ date[2] >= 25
  \/ date[1] \in {2, 4, 9, 11}

\* C27: is_sync_needed is true exactly when no call of sync_time has
\* returned True yet, or more time has passed since the last one that did
\* than the sync interval, halved inside the DST transition window.
C27_SyncNeeded ==
  is_sync_needed <=>
    \/ LastSuccess = 0
    \/ now - sync_log[LastSuccess].local >
         (IF InWindow THEN sync_interval \div 2 ELSE sync_interval)

\* in April, half an interval and 20 s after the last sync
C27_Witness ==
  /\ date = <<4, 24>>
  /\ LastSuccess # 0
  /\ now - sync_log[LastSuccess].local = (sync_interval \div 2) + ShortTick
  /\ is_sync_needed

\* ------------------------------------------------------------------------
\* Part III: properties of _validate_token_format
\* ------------------------------------------------------------------------
\* what stands before the first ':' of a token that has one, and after it
PrefixOf(token) ==
  SubSeq(token, 1, (CHOOSE i \in Colons(token) : \A j \in Colons(token) : i <= j) - 1)

SuffixOf(token) ==
  SubSeq(token, (CHOOSE i \in Colons(token) : \A j \in Colons(token) : i <= j) + 1,
         Len(token))

\* a numeric prefix: decimal digits, at least one
NumericPrefix(token) ==
  /\ PrefixOf(token) # <<>>
  /\ \A i \in 1..Len(PrefixOf(token)) : PrefixOf(token)[i] \in DigitChars

\* a prefix that is no number however it is read: empty, or with a
\* character that is no digit, sign, blank or underscore
NotANumber(token) ==
  \/ PrefixOf(token) = <<>>
  \/ \E i \in 1..Len(PrefixOf(token)) :
       PrefixOf(token)[i] \notin DigitChars \cup Whitespace \cup {"+", "-", "_"}

\* the value of a numeric prefix is in 1..9999999999
PrefixInRange(token) ==
  /\ Significant(PrefixOf(token)) >= 1
  /\ Significant(PrefixOf(token)) <= MaxBotIdDigits

\* a character of '0123456789abcdef' stands ten times in a row in the token
HasSuspiciousRun(token) ==
  \E s \in 1..(Len(token) - SuspiciousRun + 1) :
    /\ token[s] \in SuspiciousChars
    /\ \A k \in 1..(SuspiciousRun - 1) : token[s + k] = token[s]

\* the tokens the claim rejects: no ':', a prefix that is no number, a
\* suffix shorter than 35
ToReject(token) ==
  \/ Colons(token) = {}
  \/ NotANumber(token)
  \/ Len(SuffixOf(token)) < MinHashLen

\* the validator was called with vres.arg and has answered
Validated == vres.op = "_validate_token_format"

StepOf(cmd, a) ==
  /\ Len(cmd_log') = Len(cmd_log) + 1
  /\ cmd_log'[Len(cmd_log')].cmd = cmd
  /\ cmd_log'[Len(cmd_log')].arg = a

\* an interval that is not a number or is below one minute
InvalidInterval(a) ==
  \/ ~int_ok(Chars(a))
  \/ Chars(a)[1] = "-"
  \/ Significant(Chars(a)) = 0

\* C28: configuration validation keeps the last valid value: /set_interval
\* with an invalid interval and /add_group with a malformed target id leave
\* the interval, the target list, the admin list and the saved
\* configuration as they were, and load_config takes no malformed interval,
\* target id or admin id from the files
C28_ValidationKeepsLastValid ==
  [][/\ \A a \in IntervalArgs :
          StepOf("set_interval", a) /\ InvalidInterval(a)
            => UNCHANGED <<interval_minutes, groups, admin_ids, conf>>
     /\ \A a \in GroupArgs :
          StepOf("add_group", a) /\ ~_validate_group_id(a)
            => UNCHANGED <<interval_minutes, groups, admin_ids, conf>>
     /\ cmd_pc = "new" /\ cmd_pc' = "idle"
          => /\ Significant(interval_minutes') \in 1..4
             /\ int(interval_minutes') \in 1..MaxIntervalMinutes
             /\ \A i \in 1..Len(groups') : _validate_group_id(groups'[i])
             /\ \A i \in 1..Len(admin_ids') : admin_ids'[i] >= 1
             /\ UNCHANGED conf]_vars

\* ------------------------------------------------------------------------
\* Part VI: properties of a dispatch cycle with commands
\* ------------------------------------------------------------------------
\* the commands handled while the cycle was in progress
DuringCycle == {i \in 1..Len(cmd_log) : cmd_log[i].during}

\* the target list as it was when the cycle started: what the first command
\* handled during the cycle found, or the list as it is
StartList ==
  IF DuringCycle = {} THEN groups
  ELSE cmd_log[CHOOSE i \in DuringCycle : \A j \in DuringCycle : i <= j].before

\* the targets the cycle has finished with, in order
Attempted == [i \in 1..Len(outcomes) |-> outcomes[i].target]

\* C30: the target list is immutable for the duration of a dispatch cycle:
\* the sequence of targets attempted in a cycle equals the target list as
\* it was when the cycle started, whatever /add_group and /remove_group do
\* while the cycle is suspended in a send or a backoff sleep
C30_TargetListImmutable ==
  dpc = "returned" /\ ~warned => Attempted = StartList

\* ------------------------------------------------------------------------
\* Part II: properties of the syncs of concurrent runs
\* ------------------------------------------------------------------------
\* the runs suspended in sync_time, and those suspended in the dispatch cycle
InSync == {k \in Firings : At(k, "syncing")}

\* C31: under every interleaving of the periodic sync job, the sync of the
\* wrapper and a dispatch cycle, offset and last_sync are written together:
\* in every state a job may read them in, last_sync is None and offset is 0,
\* or offset is what the servers answered to the sync that set last_sync
C31_SyncStateTogether ==
  IF last_sync = <<>> THEN offset = 0
  ELSE offset = ServerAhead(last_sync[1])

\* both jobs are suspended in sync_time at once, after an earlier sync at
\* another time
C31_Witness ==
  /\ Cardinality(InSync) = 2
  /\ last_sync # <<>>
  /\ last_sync[1] # now

\* a later sync has replaced the result of an earlier one, with a dispatch
\* cycle in progress
C31_WitnessCycle ==
  /\ last_sync # <<>>
  /\ last_sync[1] > 0
  /\ offset # ServerAhead(0)
  /\ dpc = "sending"

\* ------------------------------------------------------------------------
\* Part II: properties of the lifecycle
\* ------------------------------------------------------------------------
\* C32: Stopped is terminal: once shutdown() has stopped the started
\* scheduler, no later operation brings it back to running and no trigger
\* of a job comes due again
C32_StoppedTerminal ==
  [][(scheduler = "stopped" /\ ~_running)
       => /\ scheduler' = "stopped"
          /\ ~_running'
          /\ Len(firings') = Len(firings)]_vars

\* ------------------------------------------------------------------------
\* Part III: properties of the recorded timestamps
\* ------------------------------------------------------------------------
\* C33: after every call of the rate limiter for an operation, made with
\* budget M and window W at time t, every timestamp recorded for the
\* operation is less than W before t and at most M are recorded
C33_RateWindow ==
  [][Len(rate_calls') > Len(rate_calls) =>
       LET c == rate_calls'[Len(rate_calls')]
           recorded == _rate_limiter'[c.operation]
       IN  /\ \A i \in 1..Len(recorded) : c.at - recorded[i] < c.window_seconds
           /\ Len(recorded) <= c.max_attempts]_vars

\* a call with budget 2 was refused with two timestamps on record, after an
\* older one had been pruned
C33_Witness ==
  /\ rate_calls # <<>>
  /\ LET c == rate_calls[Len(rate_calls)]
     IN  /\ ~c.allowed
         /\ c.max_attempts = 2
         /\ c.at = now
         /\ Len(_rate_limiter[c.operation]) = 2
         /\ _rate_limiter[c.operation][1] > 0
         /\ \E i \in 1..Len(rate_calls) :
              /\ rate_calls[i].operation = c.operation
              /\ rate_calls[i].at = 0

\* ------------------------------------------------------------------------
\* Part V: properties of the server search
\* ------------------------------------------------------------------------
\* a query is out, or the coroutine sleeps before the next one
Searching == sync_pc \in {"request", "sleep"}

\* the place of the query in the order of the search: server after server,
\* and for a server attempt after attempt
Rank == server * ntp_max_retries + attempt_no

\* C34: one sync asks the servers in the order of the list, only the first
\* 8, each at most max_retries (2) times; the first valid answer ends the
\* search with True and nothing is asked after it; so the sync ends after
\* at most 8 x max_retries queries, with False when no answer was valid
C34_BoundedOrderedSearch ==
  [][/\ Searching =>
          /\ server \in 0..(MaxServers - 1)
          /\ attempt_no \in 0..(ntp_max_retries - 1)
          /\ Rank < MaxServers * ntp_max_retries
     /\ (Searching /\ Searching') =>
          /\ Rank' >= Rank
          /\ (sync_pc' = "request" /\ <<sync_pc, Rank>>' # <<sync_pc, Rank>>)
               => Rank' > Rank
          /\ server' \in {server, server + 1}
          /\ server' = server + 1 => attempt_no' = 0
     /\ (Searching /\ ~Searching') =>
          /\ sync_pc' = "idle"
          /\ Len(sync_log') = Len(sync_log) + 1
          /\ LET e == sync_log'[Len(sync_log')]
             IN  IF e.ntp_time # <<>>
                   THEN e.returned /\ sync_pc = "request"
                   ELSE /\ ~e.returned
                        /\ server = MaxServers - 1
     /\ (~Searching /\ Searching') => server' = 0 /\ attempt_no' = 0]_vars

\* the last server is asked for the last time, in a sync that follows one the
\* fourth server has answered
C34_Witness ==
  /\ sync_pc = "request"
  /\ server = MaxServers - 1
  /\ attempt_no = ntp_max_retries - 1
  /\ Len(sync_log) = 1
  /\ sync_log[1].returned

\* the step is the arrival of an answer that is d off the local clock
Answered(d) == SyncResponse(d)

\* C35: suspicious answers are never accepted: an answer with an offset of
\* more than an hour, or with none, does not end the search as a success
\* and changes neither offset nor last_sync; so no sync has returned True
\* with, and offset never is, more than an hour
C35_SuspiciousNeverAccepted ==
  /\ [][/\ \A d \in AnswerOffsets :
            (IsSuspicious(d) /\ Answered(d)) =>
              /\ UNCHANGED <<offset, last_sync>>
              /\ \A i \in 1..Len(sync_log') :
                   i > Len(sync_log) => ~sync_log'[i].returned
        /\ SyncSuspicious =>
              /\ UNCHANGED <<offset, last_sync>>
              /\ \A i \in 1..Len(sync_log') :
                   i > Len(sync_log) => ~sync_log'[i].returned]_vars
  /\ [](/\ offset <= SuspiciousLimit
        /\ 0 - offset <= SuspiciousLimit
        /\ \A i \in 1..Len(sync_log) :
             sync_log[i].returned =>
               ~IsSuspicious(sync_log[i].ntp_time[1] - sync_log[i].local))

\* the last server's last answer was suspicious, after a sync that succeeded:
\* the second sync has returned False and the first one's offset is kept
C35_Witness ==
  /\ Len(sync_log) = 2
  /\ sync_log[1].returned
  /\ ~sync_log[2].returned
  /\ sync_log[2].asked
  /\ last_sync = <<sync_log[1].local>>
  /\ offset = 7

\* ------------------------------------------------------------------------
\* Part VI: properties of the messaging commands
\* ------------------------------------------------------------------------
\* C36: ResilientScheduler.start() always terminates: a call of start() in
\* progress, in particular the one start_messaging awaits after a
\* stop_messaging (a second /start, restart_messaging, /set_interval while
\* messaging is active), eventually returns
C36_StartTerminates == (cpc = "start_sleep") ~> (cpc = "idle")

\* no call of start_messaging, stop_messaging, restart_messaging or
\* shutdown is in progress
NoCall == cmd_pc \in {"idle", "down"} /\ cpc = "idle"

\* C38: messaging flag consistency: when every call of start_messaging,
\* stop_messaging, restart_messaging and shutdown made so far has returned
\* or raised, messaging_active is true if and only if the job
\* messaging_<instance> is registered in the scheduler
C38_FlagMatchesJob ==
  NoCall => (messaging_active <=> MessagingJob \in apsJobs)

\* a run of the messaging job calls send_messages_with_retry in this step:
\* a dispatch cycle begins
CycleBegins ==
  \E k \in 1..Len(firings) :
    firings[k].id = MessagingJob /\ firings'[k].calls > firings[k].calls

\* C39: stop really stops: from the return of stop_messaging until
\* start_messaging is called again (messaging_active is false for exactly
\* that long) no dispatch cycle begins, and the remove_job of stop_messaging
\* leaves the job id neither in the executor's job store nor in the stored
\* job configurations, whether the id was known or not
C39_StopReallyStops ==
  [][/\ CycleBegins => messaging_active
     /\ messaging_active /\ ~messaging_active'
          => MessagingJob \notin apsJobs' /\ MessagingJob \notin _jobs_config']_vars

\* ------------------------------------------------------------------------
\* Part III: properties of the token file across processes
\* ------------------------------------------------------------------------
\* the last call was a load that found the complete file of a save
LoadedSaved(e) ==
  /\ vres.op = "load_encrypted_token"
  /\ vres.arg # NoFile
  /\ vres.arg.part = "all"
  /\ vres.arg.blob = e.blob

\* C37: persistence survives a restart: a token stored with save in one
\* process is returned by load / get_token in that process and in every
\* later process whose SecurityManager is built the same way
C37_PersistenceSurvivesRestart ==
  \A e \in issued : LoadedSaved(e) => ~vres.raised /\ vres.value = e.token

\* ------------------------------------------------------------------------
\* Part VI: properties of the saved interval
\* ------------------------------------------------------------------------
\* settings.txt holds the interval of a /set_interval that was accepted and
\* saved
SavedInterval ==
  /\ conf.settings_txt # NoFile
  /\ \E i \in 1..Len(cmd_log) :
       /\ cmd_log[i].cmd = "set_interval"
       /\ cmd_log[i].reply = "Interval Updated"
       /\ conf.settings_txt.interval_minutes = Canon(Chars(cmd_log[i].arg))

\* C40: interval round-trip: an interval accepted by /set_interval and
\* written by save_config is read back unchanged by the load_config of the
\* next start
C40_IntervalRoundTrip ==
  [][cmd_pc = "new" /\ cmd_pc' = "idle" /\ SavedInterval
       => interval_minutes' = conf.settings_txt.interval_minutes]_vars

====
